---- MODULE Spec2Model ----
(***************************************************************************)
(* Auri priority engine (src/src/lib/engine/priority.ts, calibration.ts)   *)
(* and the callers that feed it.                                           *)
(*                                                                         *)
(* JavaScript numbers are modelled as fixed-point integers: the integer n  *)
(* stands for the number n / ONE.  Every product and quotient the engine   *)
(* takes of calibration values, tenths of weights, whole benefits and      *)
(* whole minutes is exact at this resolution; Math.exp is computed by its  *)
(* power series and truncated to the resolution.  NaN is a value of its    *)
(* own that every arithmetic operator propagates and every comparison      *)
(* rejects, as in IEEE-754.                                                *)
(*                                                                         *)
(* An optional field (x?: T) is a sequence: <<>> when absent, <<v>> when   *)
(* present.  A date string is the hour it denotes, or BadDate when it does *)
(* not parse.                                                              *)
(***************************************************************************)
EXTENDS Integers, Sequences, FiniteSets, TLC

\* ------------------------------------------------------------------------
\* State
\* ------------------------------------------------------------------------

VARIABLES
  pc,        \* position of the caller
  argTask,   \* the task handed to scoreTask
  argTasks,  \* the task collection handed to scoreTask / sortTasksByPriority
  argNow,    \* the time handed to the engine, in hours
  argPrefs,  \* the UserPreferences handed to the engine
  score,     \* what scoreTask returned
  rescore,   \* what scoreTask returned when called again
  sorted1,   \* what sortTasksByPriority returned
  sorted2,   \* what sortTasksByPriority returned when called again
  clock,     \* the wall clock (new Date()), in hours
  fargs,     \* the argument object of a formula call, or the store action
             \* called last
  fret,      \* what the formula returned
  fprev,     \* what the formula returned on the call before, or the task
             \* scored by the call before
  fraised,   \* the argument or task field changed between the two calls
  state,     \* the store's state
  generated  \* how many ids generateId has handed out

vars == <<pc, argTask, argTasks, argNow, argPrefs, score, rescore, sorted1,
          sorted2, clock, fargs, fret, fprev, fraised, state, generated>>

\* ------------------------------------------------------------------------
\* Numbers
\* ------------------------------------------------------------------------

\* resolution of the fixed-point numbers: 60 * 500, so that minutes / 60,
\* tenths, fifths and quarters are exact
ONE == 60 * 500

\* the not-a-number value
NaN == 0 - 2000000000

IsNaN(x) == x = NaN

\* the whole number n as a fixed-point value
Num(n) == IF IsNaN(n) THEN NaN ELSE n * ONE

\* n tenths as a fixed-point value
Tenths(n) == n * (ONE \div 10)

Abs(x) == IF x < 0 THEN 0 - x ELSE x

Sign(x) == IF x < 0 THEN 0 - 1 ELSE 1

\* floor(a * b / ONE) for a, b >= 0, without leaving 32 bits
MulAbs(a, b) ==
  LET a1 == a \div ONE
      a0 == a % ONE
      b1 == b \div ONE
      b0 == b % ONE
  IN  a1 * b1 * ONE + a1 * b0 + a0 * b1 + ((a0 * b0) \div ONE)

\* floor(a * ONE / b) for a >= 0, b > 0, without leaving 32 bits
DivAbs(a, b) ==
  LET q0 == a \div b
      r0 == a % b
      q1 == (r0 * 60) \div b
      r1 == (r0 * 60) % b
      q2 == (r1 * 500) \div b
  IN  q0 * ONE + q1 * 500 + q2

\* a + b
Add(a, b) == IF IsNaN(a) \/ IsNaN(b) THEN NaN ELSE a + b

\* a - b
Sub(a, b) == IF IsNaN(a) \/ IsNaN(b) THEN NaN ELSE a - b

\* a * b
Mul(a, b) ==
  IF IsNaN(a) \/ IsNaN(b) THEN NaN
  ELSE Sign(a) * Sign(b) * MulAbs(Abs(a), Abs(b))

\* a / b; 0 / 0 is NaN (a non-zero number over 0 is an infinity, which no
\* division of the engine produces: its divisors are non-zero constants)
Div(a, b) ==
  IF IsNaN(a) \/ IsNaN(b) \/ b = 0 THEN NaN
  ELSE Sign(a) * Sign(b) * DivAbs(Abs(a), Abs(b))

\* Math.max(0, x): NaN when x is NaN
Max0(x) == IF IsNaN(x) THEN NaN ELSE IF x > 0 THEN x ELSE 0

\* a > b, a < b, a >= b, a <= b of JavaScript: false when either side is NaN
Gt(a, b) == ~IsNaN(a) /\ ~IsNaN(b) /\ a > b
Lt(a, b) == ~IsNaN(a) /\ ~IsNaN(b) /\ a < b
Ge(a, b) == ~IsNaN(a) /\ ~IsNaN(b) /\ a >= b
Le(a, b) == ~IsNaN(a) /\ ~IsNaN(b) /\ a <= b

\* !x of JavaScript for a number: 0 and NaN are falsy
Falsy(x) == x = 0 \/ IsNaN(x)

\* number of terms of the power series of exp
ExpTerms == 12

\* i-th term of the series of exp(-r), 0 <= r < ONE, without its sign
RECURSIVE ExpTerm(_, _)
ExpTerm(r, i) == IF i = 0 THEN ONE ELSE MulAbs(ExpTerm(r, i - 1), r) \div i

RECURSIVE ExpSeries(_, _)
ExpSeries(r, i) ==
  IF i > ExpTerms THEN 0
  ELSE (IF i % 2 = 0 THEN ExpTerm(r, i) ELSE 0 - ExpTerm(r, i)) + ExpSeries(r, i + 1)

\* exp(-r) for 0 <= r < ONE
ExpFrac(r) == ExpSeries(r, 0)

\* exp(-1)
EInv == MulAbs(ExpFrac(ONE \div 2), ExpFrac(ONE \div 2))

\* acc * b^n, stopping as soon as the product has underflowed to 0
RECURSIVE PowAcc(_, _, _)
PowAcc(acc, b, n) ==
  IF n = 0 \/ acc = 0 THEN acc ELSE PowAcc(MulAbs(acc, b), b, n - 1)

PowAbs(b, n) == PowAcc(ONE, b, n)

\* exp(-x) for x >= 0: underflows to 0 as x grows
ExpNeg(x) == MulAbs(PowAbs(EInv, x \div ONE), ExpFrac(x % ONE))

\* Math.exp(x) for the arguments the engine passes: x <= 0 (rates, hours and
\* remaining days are non-negative and the exponent is negated) or NaN
Exp(x) == IF IsNaN(x) THEN NaN ELSE ExpNeg(0 - x)

\* ------------------------------------------------------------------------
\* Optional fields and dates
\* ------------------------------------------------------------------------

Absent == <<>>
Some(v) == <<v>>
Has(o) == o # <<>>
Val(o) == o[1]

\* a date string that does not parse
BadDate == 0 - 1

\* new Date(s).getTime(), in hours: NaN for an unparsable string
getTime(s) == IF s = BadDate THEN NaN ELSE s

\* hours in a day: the 1000 * 60 * 60 * 24 of scoreTask, in hours
DAY == 24

\* ------------------------------------------------------------------------
\* Calibration (calibration.ts)
\* ------------------------------------------------------------------------

\* TaskType
TaskTypes == {"pontual", "estudo", "treino", "sono", "leitura", "outro"}

DEFAULTS ==
  [ SCALE |-> Num(10),
    continuous |->
      [ estudo  |-> [Hmin |-> Tenths(15) \div 2, Hmax |-> Num(2),    b0 |-> ONE, k |-> Tenths(7)],
        treino  |-> [Hmin |-> Num(1),            Hmax |-> Tenths(15), b0 |-> ONE, k |-> Tenths(6)],
        sono    |-> [Hmin |-> Num(7),            Hmax |-> Num(9),    b0 |-> ONE, k |-> Tenths(4)],
        leitura |-> [Hmin |-> Tenths(5),         Hmax |-> Num(3),    b0 |-> ONE, k |-> Tenths(5)] ],
    cost |->
      [ ct |-> Num(8), ce |-> Num(6), cS |-> Num(2),
        kSetup |-> [estudo |-> Num(10), treino |-> Num(5), sono |-> Num(2),
                    leitura |-> Num(3), outro |-> Num(5)] ],
    gut |-> [betaG |-> Tenths(2), betaU |-> Tenths(35) \div 10],
    decay |-> [lambda0 |-> Tenths(25) \div 10],
    defaultWeights |-> [wd |-> Tenths(4), wf |-> Tenths(3), wm |-> Tenths(3)],
    defaultBenefits |->
      [ estudo  |-> [bd |-> 8, bf |-> 2, bm |-> 7],
        treino  |-> [bd |-> 3, bf |-> 9, bm |-> 6],
        sono    |-> [bd |-> 4, bf |-> 8, bm |-> 8],
        leitura |-> [bd |-> 6, bf |-> 1, bm |-> 8],
        pontual |-> [bd |-> 5, bf |-> 3, bm |-> 4],
        outro   |-> [bd |-> 4, bf |-> 4, bm |-> 4] ] ]

\* duration in minutes, effort in units
CONSTRAINTS ==
  [ duration |->
      [ estudo  |-> [min |-> 45,  max |-> 120],
        treino  |-> [min |-> 60,  max |-> 90],
        sono    |-> [min |-> 420, max |-> 540],
        leitura |-> [min |-> 30,  max |-> 180],
        pontual |-> [min |-> 5,   max |-> 480],
        outro   |-> [min |-> 5,   max |-> 480] ],
    effort |->
      [ estudo  |-> [min |-> 4, max |-> 9],
        treino  |-> [min |-> 6, max |-> 10],
        sono    |-> [min |-> 1, max |-> 3],
        leitura |-> [min |-> 2, max |-> 6],
        pontual |-> [min |-> 1, max |-> 8],
        outro   |-> [min |-> 1, max |-> 10] ] ]

\* validateDuration with both limits excluded
validateDuration_exclusive(type, minutes) ==
  IF type \notin DOMAIN CONSTRAINTS.duration THEN TRUE
  ELSE LET constraint == CONSTRAINTS.duration[type]
       IN  minutes > constraint.min /\ minutes < constraint.max

validateDuration(type, minutes) ==
  IF type \notin DOMAIN CONSTRAINTS.duration THEN TRUE
  ELSE LET constraint == CONSTRAINTS.duration[type]
       IN  minutes >= constraint.min /\ minutes <= constraint.max

validateEffort(type, effort) ==
  IF type \notin DOMAIN CONSTRAINTS.effort THEN TRUE
  ELSE LET constraint == CONSTRAINTS.effort[type]
       IN  effort >= constraint.min /\ effort <= constraint.max

\* ------------------------------------------------------------------------
\* Formulas (priority.ts)
\* ------------------------------------------------------------------------

\* calcS0Base weighting the mental benefit with the physical weight
calcS0Base_wrongWeight(a) ==
  LET SCALE == IF Has(a.SCALE) THEN Val(a.SCALE) ELSE DEFAULTS.SCALE
      result == Mul(SCALE, Add(Add(Mul(a.wd, a.bd), Mul(a.wf, a.bf)), Mul(a.wf, a.bm)))
  IN  result

\* S0 = SCALE * (wd*bd + wf*bf + wm*bm); a.SCALE defaults to DEFAULTS.SCALE
calcS0Base(a) ==
  LET SCALE == IF Has(a.SCALE) THEN Val(a.SCALE) ELSE DEFAULTS.SCALE
      result == Mul(SCALE, Add(Add(Mul(a.wd, a.bd), Mul(a.wf, a.bf)), Mul(a.wm, a.bm)))
  IN  result

\* continuousBenefit growing linearly, without saturation
continuousBenefit_unsaturated(H, b0, k) ==
  IF Le(H, 0) THEN 0 ELSE Mul(b0, H)

\* B(H) = (b0/k) * (1 - exp(-k*H))
continuousBenefit(H, b0, k) ==
  IF Le(H, 0) THEN 0
  ELSE Mul(Div(b0, k), Sub(ONE, Exp(Mul(Sub(0, k), H))))

calcS0Continuous(H, weights, benefits, SCALE, b0, k) ==
  LET benefitFactor == continuousBenefit(H, b0, k)
      weightedBenefit ==
        Add(Add(Mul(weights.wd, benefits.bd), Mul(weights.wf, benefits.bf)),
            Mul(weights.wm, benefits.bm))
  IN  Mul(Mul(SCALE, benefitFactor), weightedBenefit)

\* calcCost returning its sum without the floor at 0
calcCost_noFloor(c) ==
  Add(Add(Add(Mul(c.ct, c.horas), Mul(c.ce, c.esforco)),
          Mul(c.cS, c.dinheiro)), c.kSetup)

\* K = max(0, ct*horas + ce*esforco + c$*dinheiro + kSetup)
calcCost(c) ==
  LET result ==
        Add(Add(Add(Mul(c.ct, c.horas), Mul(c.ce, c.esforco)),
                Mul(c.cS, c.dinheiro)), c.kSetup)
  IN  Max0(result)

\* hours at which the helper tAdj of applyGUT is tabulated
TAdjHours == {0, ONE, 2 * ONE}

\* applyGUT with the sign of the gravity term reversed
applyGUT_gravityInverted(S0, gut) ==
  LET G == Num(gut.G)
      U == Num(gut.U)
      betaG == IF Has(gut.betaG) THEN Val(gut.betaG) ELSE DEFAULTS.gut.betaG
      betaU == IF Has(gut.betaU) THEN Val(gut.betaU) ELSE DEFAULTS.gut.betaU
  IN  [ S0G  |-> Mul(S0, Add(ONE, Mul(betaG, Sub(Num(3), G)))),
        tAdj |-> [h \in TAdjHours |-> Add(h, Mul(betaU, Sub(U, Num(3))))] ]

\* applyGUT folding the urgency term into S0G as well
applyGUT_urgencyFolded(S0, gut) ==
  LET G == Num(gut.G)
      U == Num(gut.U)
      betaG == IF Has(gut.betaG) THEN Val(gut.betaG) ELSE DEFAULTS.gut.betaG
      betaU == IF Has(gut.betaU) THEN Val(gut.betaU) ELSE DEFAULTS.gut.betaU
  IN  [ S0G  |-> Mul(Mul(S0, Add(ONE, Mul(betaG, Sub(G, Num(3))))),
                     Add(ONE, Mul(betaU, Sub(U, Num(3))))),
        tAdj |-> [h \in TAdjHours |-> Add(h, Mul(betaU, Sub(U, Num(3))))] ]

\* applyGUT with its neutral gravity at 2
applyGUT_neutralTwo(S0, gut) ==
  LET G == Num(gut.G)
      U == Num(gut.U)
      betaG == IF Has(gut.betaG) THEN Val(gut.betaG) ELSE DEFAULTS.gut.betaG
      betaU == IF Has(gut.betaU) THEN Val(gut.betaU) ELSE DEFAULTS.gut.betaU
  IN  [ S0G  |-> Mul(S0, Add(ONE, Mul(betaG, Sub(G, Num(2))))),
        tAdj |-> [h \in TAdjHours |-> Add(h, Mul(betaU, Sub(U, Num(3))))] ]

\* gut.betaG and gut.betaU default to DEFAULTS.gut
applyGUT(S0, gut) ==
  LET G == Num(gut.G)
      U == Num(gut.U)
      betaG == IF Has(gut.betaG) THEN Val(gut.betaG) ELSE DEFAULTS.gut.betaG
      betaU == IF Has(gut.betaU) THEN Val(gut.betaU) ELSE DEFAULTS.gut.betaU
  IN  [ S0G  |-> Mul(S0, Add(ONE, Mul(betaG, Sub(G, Num(3))))),
        tAdj |-> [h \in TAdjHours |-> Add(h, Mul(betaU, Sub(U, Num(3))))] ]

\* applyDecay without the exponential
applyDecay_noDecay(S0G, d) == S0G

\* S0G * exp(-lambda0 * (Rd - 1) * deltaDays)
applyDecay(S0G, d) ==
  LET lambda == Mul(d.lambda0, Sub(Num(d.Rd), ONE))
  IN  Mul(S0G, Exp(Mul(Sub(0, lambda), d.deltaDays)))

calcPriorityBase(S0D, K) == Max0(Sub(S0D, K))

\* applyPracticalConstraints joining its two checks with "or"
applyPracticalConstraints_or(PriorityBase, w) ==
  IF w.Wwin = 1 \/ w.depsDone THEN PriorityBase ELSE 0

applyPracticalConstraints(PriorityBase, w) ==
  IF w.Wwin = 1 /\ w.depsDone THEN PriorityBase ELSE 0

\* ------------------------------------------------------------------------
\* Task scorer (priority.ts)
\* ------------------------------------------------------------------------

\* !task.durationMin: absent or 0
NoDuration(task) == ~Has(task.durationMin) \/ Falsy(Val(task.durationMin))

\* !task.effort: absent or 0
NoEffort(task) == ~Has(task.effort) \/ Falsy(Val(task.effort))

\* !task.money: absent or 0
NoMoney(task) == ~Has(task.money) \/ Falsy(Val(task.money))

checkDurationConstraints(task) ==
  IF NoDuration(task) THEN TRUE
  ELSE validateDuration(task.type, Val(task.durationMin))

checkEffortConstraints(task) ==
  IF NoEffort(task) THEN TRUE
  ELSE validateEffort(task.type, Val(task.effort))

\* checkTimeWindow refusing a window that has not started yet
checkTimeWindow_futureBlocked(task, now) ==
  IF Has(task.start) /\ Has(task.end)
  THEN LET startTime == getTime(Val(task.start))
           endTime == getTime(Val(task.end))
       IN  IF Gt(startTime, now) THEN 0
           ELSE IF Lt(endTime, now) THEN 0
           ELSE 1
  ELSE 1

checkTimeWindow(task, now) ==
  IF Has(task.start) /\ Has(task.end)
  THEN LET startTime == getTime(Val(task.start))
           endTime == getTime(Val(task.end))
       IN  IF Gt(startTime, now) THEN 1
           ELSE IF Lt(endTime, now) THEN 0
           ELSE 1
  ELSE 1

\* allTasks.find(t => t.id === depId): the index of the first task with
\* that id, 0 when there is none
findById(allTasks, depId) ==
  IF \E i \in DOMAIN allTasks : allTasks[i].id = depId
  THEN CHOOSE i \in DOMAIN allTasks :
         /\ allTasks[i].id = depId
         /\ \A j \in DOMAIN allTasks : allTasks[j].id = depId => i <= j
  ELSE 0

\* checkDependencies asking every task of the collection to be completed
\* instead of the tasks the dependencies name
checkDependencies_everyTask(task, allTasks) ==
  IF ~Has(task.deps) \/ Val(task.deps) = {} THEN TRUE
  ELSE /\ \A depId \in Val(task.deps) : findById(allTasks, depId) # 0
       /\ \A i \in DOMAIN allTasks : allTasks[i].completed = TRUE

\* checkDependencies letting an id that is not in the collection pass
checkDependencies_missingPasses(task, allTasks) ==
  IF ~Has(task.deps) \/ Val(task.deps) = {} THEN TRUE
  ELSE \A depId \in Val(task.deps) :
         LET i == findById(allTasks, depId)
         IN  i = 0 \/ allTasks[i].completed = TRUE

checkDependencies(task, allTasks) ==
  IF ~Has(task.deps) \/ Val(task.deps) = {} THEN TRUE
  ELSE \A depId \in Val(task.deps) :
         LET i == findById(allTasks, depId)
         IN  i # 0 /\ allTasks[i].completed = TRUE

\* (task.durationMin || 60) / 60
taskHoursOf(task) ==
  Div(Num(IF NoDuration(task) THEN 60 ELSE Val(task.durationMin)), Num(60))

\* the categories scoreTask treats as continuous
ContinuousTypes == {"estudo", "treino", "sono", "leitura"}

\* task.benefits spread into an argument object: every field of an absent
\* benefits object is undefined, which arithmetic turns into NaN
benefitsOrNaN(task) ==
  IF Has(task.benefits)
  THEN [bd |-> Num(Val(task.benefits).bd), bf |-> Num(Val(task.benefits).bf),
        bm |-> Num(Val(task.benefits).bm)]
  ELSE [bd |-> NaN, bf |-> NaN, bm |-> NaN]

\* reading benefits.bd of an absent benefits object in calcS0Continuous
\* throws a TypeError
throwsInS0(task) == task.type \in ContinuousTypes /\ ~Has(task.benefits)

\* S0Of with the base formula for a continuous category that has no duration
S0Of_baseWithoutDuration(task, prefs) ==
  LET b == benefitsOrNaN(task)
      base == calcS0Base([wd |-> prefs.weights.wd, wf |-> prefs.weights.wf,
                          wm |-> prefs.weights.wm, bd |-> b.bd, bf |-> b.bf,
                          bm |-> b.bm, SCALE |-> Absent])
  IN  IF task.type \in ContinuousTypes /\ ~NoDuration(task)
      THEN LET meta == DEFAULTS.continuous[task.type]
           IN  calcS0Continuous(taskHoursOf(task), prefs.weights, b,
                                DEFAULTS.SCALE, meta.b0, meta.k)
      ELSE base

\* step 1: S0, continuous or base
S0Of(task, prefs) ==
  LET b == benefitsOrNaN(task)
      base == calcS0Base([wd |-> prefs.weights.wd, wf |-> prefs.weights.wf,
                          wm |-> prefs.weights.wm, bd |-> b.bd, bf |-> b.bf,
                          bm |-> b.bm, SCALE |-> Absent])
  IN  IF task.type \in ContinuousTypes
      THEN IF task.type \in DOMAIN DEFAULTS.continuous
           THEN LET meta == DEFAULTS.continuous[task.type]
                IN  calcS0Continuous(taskHoursOf(task), prefs.weights, b,
                                     DEFAULTS.SCALE, meta.b0, meta.k)
           ELSE base
      ELSE base

\* costOf with sono's setup cost for a type that has no entry
costOf_setupFallbackSono(task) ==
  LET kSetup == IF task.type \in DOMAIN DEFAULTS.cost.kSetup
                   /\ ~Falsy(DEFAULTS.cost.kSetup[task.type])
                THEN DEFAULTS.cost.kSetup[task.type]
                ELSE DEFAULTS.cost.kSetup.sono
  IN  calcCost([ct |-> DEFAULTS.cost.ct, ce |-> DEFAULTS.cost.ce,
                cS |-> DEFAULTS.cost.cS, kSetup |-> kSetup,
                horas |-> taskHoursOf(task),
                esforco |-> Num(IF NoEffort(task) THEN 3 ELSE Val(task.effort)),
                dinheiro |-> Num(IF NoMoney(task) THEN 0 ELSE Val(task.money))])

\* step 2: cost
costOf(task) ==
  LET kSetup == IF task.type \in DOMAIN DEFAULTS.cost.kSetup
                   /\ ~Falsy(DEFAULTS.cost.kSetup[task.type])
                THEN DEFAULTS.cost.kSetup[task.type]
                ELSE DEFAULTS.cost.kSetup.outro
  IN  calcCost([ct |-> DEFAULTS.cost.ct, ce |-> DEFAULTS.cost.ce,
                cS |-> DEFAULTS.cost.cS, kSetup |-> kSetup,
                horas |-> taskHoursOf(task),
                esforco |-> Num(IF NoEffort(task) THEN 3 ELSE Val(task.effort)),
                dinheiro |-> Num(IF NoMoney(task) THEN 0 ELSE Val(task.money))])

\* step 3: GUT, when the task carries it
S0GOf(task, prefs) ==
  IF Has(task.gut) THEN applyGUT(S0Of(task, prefs), Val(task.gut)).S0G
  ELSE S0Of(task, prefs)

\* task.decay?.due: a decay object with a non-empty due string
HasDue(task) == Has(task.decay) /\ Has(Val(task.decay).due)

\* Math.max(0, (dueDate.getTime() - now.getTime()) / (1000*60*60*24))
deltaDaysOf(task, now) ==
  Max0(Div(Num(Sub(getTime(Val(Val(task.decay).due)), now)), Num(DAY)))

\* step 4: temporal decay, when the task has a deadline
S0DOf(task, now, prefs) ==
  IF HasDue(task)
  THEN applyDecay(S0GOf(task, prefs),
                  [deltaDays |-> deltaDaysOf(task, now),
                   lambda0 |-> DEFAULTS.decay.lambda0,
                   Rd |-> Val(task.decay).Rd])
  ELSE S0GOf(task, prefs)

\* steps 5 and 6: priority base and practical gate
finalScoreOf(task, now, prefs, allTasks) ==
  LET priorityBase == calcPriorityBase(S0DOf(task, now, prefs), costOf(task))
      Wwin == checkTimeWindow(task, now)
      depsDone == checkDependencies(task, allTasks)
  IN  applyPracticalConstraints(priorityBase, [Wwin |-> Wwin, depsDone |-> depsDone])

\* scoreTask without its test of task.completed
scoreTask_noCompletedGate(task, now, prefs, allTasks) ==
  IF ~checkDurationConstraints(task) THEN 0
  ELSE IF ~checkEffortConstraints(task) THEN 0
  ELSE IF throwsInS0(task) THEN 0
  ELSE finalScoreOf(task, now, prefs, allTasks)

\* the try block returns 0 at the first failing gate; the catch block turns
\* a thrown error into 0
scoreTask(task, now, prefs, allTasks) ==
  IF task.completed THEN 0
  ELSE IF ~checkDurationConstraints(task) THEN 0
  ELSE IF ~checkEffortConstraints(task) THEN 0
  ELSE IF throwsInS0(task) THEN 0
  ELSE finalScoreOf(task, now, prefs, allTasks)

\* ------------------------------------------------------------------------
\* Batch ranker (priority.ts)
\* ------------------------------------------------------------------------

\* tasks.map(task => ({...task, priorityScore: scoreTask(task, now, prefs, tasks)}))
tasksWithScores(tasks, now, prefs) ==
  [i \in DOMAIN tasks |->
     [tasks[i] EXCEPT !.priorityScore =
        Some(scoreTask(tasks[i], now, prefs, tasks))]]

\* (t.priorityScore || 0)
scoreOrZero(t) ==
  IF ~Has(t.priorityScore) \/ Falsy(Val(t.priorityScore)) THEN 0
  ELSE Val(t.priorityScore)

\* the comparator (a, b) => (b.priorityScore || 0) - (a.priorityScore || 0)
compareTasks(a, b) == scoreOrZero(b) - scoreOrZero(a)

\* insertSorted placing x before the elements it ties with
RECURSIVE insertSorted_unstable(_, _)
insertSorted_unstable(s, x) ==
  IF s = <<>> THEN <<x>>
  ELSE IF compareTasks(Head(s), x) < 0
       THEN <<Head(s)>> \o insertSorted_unstable(Tail(s), x)
  ELSE <<x>> \o s

\* x inserted into the sorted sequence s behind every element that does not
\* compare after it (Array.prototype.sort is stable)
RECURSIVE insertSorted(_, _)
insertSorted(s, x) ==
  IF s = <<>> THEN <<x>>
  ELSE IF compareTasks(Head(s), x) <= 0 THEN <<Head(s)>> \o insertSorted(Tail(s), x)
  ELSE <<x>> \o s

\* Array.prototype.sort with compareTasks
RECURSIVE sortByCompare(_)
sortByCompare(s) ==
  IF s = <<>> THEN <<>>
  ELSE insertSorted(sortByCompare(SubSeq(s, 1, Len(s) - 1)), s[Len(s)])

\* sortTasksByPriority reading the wall clock instead of its argument now
sortTasksByPriority_wallClock(tasks, now, prefs) ==
  sortByCompare(tasksWithScores(tasks, clock, prefs))

sortTasksByPriority(tasks, now, prefs) ==
  sortByCompare(tasksWithScores(tasks, now, prefs))

\* ------------------------------------------------------------------------
\* Task records
\* ------------------------------------------------------------------------

\* a Task record (types.ts); title, description, timestamps, colour and tags
\* are read by no operation of the engine
mkTask(id, type, durationMin, effort, money, benefits, gut, decay, deps, start, end, completed) ==
  [ id |-> id, type |-> type, durationMin |-> durationMin, effort |-> effort,
    money |-> money, benefits |-> benefits, gut |-> gut, decay |-> decay,
    deps |-> deps, start |-> start, end |-> end, completed |-> completed,
    priorityScore |-> Absent ]

\* createDefaultPreferences().weights, with the fields the engine reads
defaultPrefs == [weights |-> DEFAULTS.defaultWeights]

\* createDefaultPreferences(), with the fields the store's actions read or
\* write besides the anchors
createDefaultPreferences ==
  [weights |-> DEFAULTS.defaultWeights, onboardingComplete |-> FALSE]

\* the store as it is created, which is also what clearAllData leaves
InitialState ==
  [ tasks |-> <<>>, preferences |-> createDefaultPreferences,
    suggestions |-> <<>>, lastCalculation |-> Absent, error |-> Absent,
    onboardingComplete |-> FALSE ]

\* values of the variables a specification does not use
NoTask == mkTask(0, "outro", Absent, Absent, Absent, Absent, Absent, Absent,
                 Absent, Absent, Absent, FALSE)
NoArgs == [fn |-> "none"]

\* ------------------------------------------------------------------------
\* Bounds
\* ------------------------------------------------------------------------

\* largest collection ranked
MaxTasks == 3

\* number of times the wall clock advances
MaxTicks == 2

\* the time of the calls: the start of the third day
Now0 == 2 * DAY

\* an id that no task of a collection carries
MissingId == MaxTasks + 6

\* ------------------------------------------------------------------------
\* Calls of scoreTask
\* ------------------------------------------------------------------------

\* a category with no calibration entry
UnknownType == "lazer"

ScoreTypes == TaskTypes \cup {UnknownType}
ScoreDurations == {Absent, Some(0), Some(30), Some(60), Some(600)}
ScoreEfforts == {Absent, Some(0), Some(5), Some(11)}
ScoreBenefits == {Absent, Some([bd |-> 8, bf |-> 2, bm |-> 7]),
                  Some([bd |-> 2, bf |-> 2, bm |-> 2])}
ScoreDeps == {Absent, Some({}), Some({1}), Some({1, 2}), Some({MissingId})}
ScoreDecays == {Absent, Some([due |-> Some(Now0 + DAY), Rd |-> 3]),
                Some([due |-> Some(BadDate), Rd |-> 3])}

\* weights other than the defaults: everything on development
DevelopmentWeights == [wd |-> Tenths(10), wf |-> 0, wm |-> 0]

\* money, gut, window and weights: at most one of them differs from the
\* plain case
ScoreExtras ==
  { [money |-> Absent, gut |-> Absent, start |-> Absent, end |-> Absent,
     weights |-> DEFAULTS.defaultWeights],
    [money |-> Some(3), gut |-> Absent, start |-> Absent, end |-> Absent,
     weights |-> DEFAULTS.defaultWeights],
    [money |-> Absent,
     gut |-> Some([G |-> 5, U |-> 4, betaG |-> Absent, betaU |-> Absent]),
     start |-> Absent, end |-> Absent, weights |-> DEFAULTS.defaultWeights],
    [money |-> Absent, gut |-> Absent, start |-> Some(Now0 - 2 * DAY),
     end |-> Some(Now0 - DAY), weights |-> DEFAULTS.defaultWeights],
    [money |-> Absent, gut |-> Absent, start |-> Absent, end |-> Absent,
     weights |-> DevelopmentWeights] }

\* a member of the collection: only its id and completed flag are read
member(id, completed) ==
  mkTask(id, "outro", Absent, Absent, Absent, Some(DEFAULTS.defaultBenefits.outro),
         Absent, Absent, Absent, Absent, Absent, completed)

ScoreCollections ==
  { <<>>,
    <<member(1, FALSE)>>,
    <<member(1, TRUE), member(2, FALSE)>>,
    <<member(2, TRUE), member(1, TRUE)>> }

InitScore ==
  /\ pc = "ready"
  /\ \E type \in ScoreTypes, d \in ScoreDurations, e \in ScoreEfforts,
        b \in ScoreBenefits, dp \in ScoreDeps, dc \in ScoreDecays,
        x \in ScoreExtras, c \in BOOLEAN :
       /\ argTask = mkTask(3, type, d, e, x.money, b, x.gut, dc, dp, x.start, x.end, c)
       /\ argPrefs = [weights |-> x.weights]
  /\ argTasks \in ScoreCollections
  /\ argNow = Now0
  /\ score = 0
  /\ rescore = 0
  /\ sorted1 = <<>>
  /\ sorted2 = <<>>
  /\ clock = Now0
  /\ fargs = NoArgs
  /\ fret = 0
  /\ fprev = 0
  /\ fraised = "none"
  /\ state = InitialState
  /\ generated = 0

\* scoreTask(task, now, prefs, allTasks)
Score ==
  /\ pc = "ready"
  /\ score' = scoreTask(argTask, argNow, argPrefs, argTasks)
  /\ pc' = "scored"
  /\ UNCHANGED <<argTask, argTasks, argNow, argPrefs, rescore, sorted1, sorted2, clock,
                 fargs, fret, fprev, fraised>>
  /\ UNCHANGED <<state, generated>>

\* a task listed in task.deps that is in the collection and not completed
\* is marked completed; nothing else changes
CompleteDep ==
  /\ pc = "scored"
  /\ Has(argTask.deps)
  /\ \E i \in DOMAIN argTasks :
       /\ argTasks[i].id \in Val(argTask.deps)
       /\ ~argTasks[i].completed
       /\ argTasks' = [argTasks EXCEPT ![i].completed = TRUE]
  /\ pc' = "depCompleted"
  /\ UNCHANGED <<argTask, argNow, argPrefs, score, rescore, sorted1, sorted2, clock,
                 fargs, fret, fprev, fraised>>
  /\ UNCHANGED <<state, generated>>

\* scoreTask(task, now, prefs, allTasks) again
ReScore ==
  /\ pc = "depCompleted"
  /\ rescore' = scoreTask(argTask, argNow, argPrefs, argTasks)
  /\ pc' = "rescored"
  /\ UNCHANGED <<argTask, argTasks, argNow, argPrefs, score, sorted1, sorted2, clock,
                 fargs, fret, fprev, fraised>>
  /\ UNCHANGED <<state, generated>>

NextScore == Score \/ CompleteDep \/ ReScore

SpecScore == InitScore /\ [][NextScore]_vars

\* the task is well-formed: benefits present and every date string parses
WellFormed(t) ==
  /\ Has(t.benefits)
  /\ HasDue(t) => Val(Val(t.decay).due) # BadDate
  /\ Has(t.start) => Val(t.start) # BadDate
  /\ Has(t.end) => Val(t.end) # BadDate

\* the same calls, on well-formed tasks only
InitScoreValid == InitScore /\ WellFormed(argTask)

SpecScoreValid == InitScoreValid /\ [][NextScore]_vars

\* ------------------------------------------------------------------------
\* Properties of scoreTask (SpecScore)
\* ------------------------------------------------------------------------

\* score is the result of scoring task against the current collection
Scored == pc = "scored"

\* the task with one field replaced
withCompleted(t, c) == [t EXCEPT !.completed = c]
withDeps(t, d) == [t EXCEPT !.deps = d]

\* C1: a task with completed = true is scored exactly 0, whatever its other
\* fields, the preferences, the time and the collection
C1_CompletedScoresZero ==
  (Scored /\ argTask.completed) => score = 0

\* a completed task that would score above 0 were it not completed
C1_Witness ==
  /\ Scored
  /\ argTask.completed
  /\ Gt(scoreTask(withCompleted(argTask, FALSE), argNow, argPrefs, argTasks), 0)

\* v lies outside the inclusive range r
OutOfRange(v, r) == v < r.min \/ v > r.max

\* C2: a non-completed task of a category with a registered range whose
\* durationMin or effort lies outside the range is scored exactly 0, for
\* every out-of-range value
C2_OutOfRangeScoresZero ==
  ( /\ Scored
    /\ ~argTask.completed
    /\ \/ /\ argTask.type \in DOMAIN CONSTRAINTS.duration
          /\ Has(argTask.durationMin)
          /\ OutOfRange(Val(argTask.durationMin), CONSTRAINTS.duration[argTask.type])
       \/ /\ argTask.type \in DOMAIN CONSTRAINTS.effort
          /\ Has(argTask.effort)
          /\ OutOfRange(Val(argTask.effort), CONSTRAINTS.effort[argTask.type]) )
  => score = 0

\* every id of t.deps is the id of a completed task of the collection
DepsResolved(t, all) ==
  \A depId \in (IF Has(t.deps) THEN Val(t.deps) ELSE {}) :
    \E i \in DOMAIN all : all[i].id = depId /\ all[i].completed

\* C3: the dependency gate passes exactly when every id in task.deps is the
\* id of a completed task of the collection (no deps: always); a task with
\* a missing or non-completed dependency is scored 0
C3_DependencyGate ==
  /\ pc # "ready" =>
       (checkDependencies(argTask, argTasks) <=> DepsResolved(argTask, argTasks))
  /\ (Scored /\ ~DepsResolved(argTask, argTasks)) => score = 0
  /\ (pc = "rescored" /\ ~DepsResolved(argTask, argTasks)) => rescore = 0

\* a task with two dependencies, both completed, scored above 0
C3_Witness ==
  /\ Scored
  /\ Has(argTask.deps)
  /\ Cardinality(Val(argTask.deps)) = 2
  /\ DepsResolved(argTask, argTasks)
  /\ Gt(score, 0)

\* C4 as stated: a task that scored 0 with a dependency not completed is
\* scored non-zero once that dependency is completed, all else equal
C4_NonZeroAfterCompletion ==
  (pc = "rescored" /\ score = 0) => rescore # 0

\* C4 as amended: after the dependency is completed the task is scored
\* non-zero exactly when all its dependencies are then completed and the
\* task scores non-zero without its dependencies
C4_NonZeroIffOnlyGate ==
  pc = "rescored" =>
    ( rescore # 0 <=>
        /\ DepsResolved(argTask, argTasks)
        /\ scoreTask(withDeps(argTask, Absent), argNow, argPrefs, argTasks) # 0 )

\* a task that scored 0 and scores above 0 after its dependency is completed
C4_Witness ==
  /\ pc = "rescored"
  /\ score = 0
  /\ Gt(rescore, 0)

\* C5: a task with a malformed date in decay.due is scored exactly 0
C5_MalformedScoresZero ==
  (Scored /\ HasDue(argTask) /\ Val(Val(argTask.decay).due) = BadDate) => score = 0

\* C6: the score is a number greater than or equal to 0, never negative
\* and never NaN
C6_ScoreNonNegative ==
  Scored => Ge(score, 0)

\* ------------------------------------------------------------------------
\* Calls of sortTasksByPriority
\* ------------------------------------------------------------------------

\* what one tick adds to the wall clock, in hours
TickHours == DAY \div 2

HighBenefits == Some([bd |-> 8, bf |-> 2, bm |-> 7])
LowBenefits == Some([bd |-> 2, bf |-> 2, bm |-> 2])

\* the tasks ranked, before their ids are set
SortBodies ==
  { mkTask(0, "outro", Absent, Absent, Absent, HighBenefits, Absent, Absent,
           Absent, Absent, Absent, FALSE),
    mkTask(0, "outro", Absent, Absent, Absent, LowBenefits, Absent, Absent,
           Absent, Absent, Absent, FALSE),
    mkTask(0, "outro", Absent, Absent, Absent, HighBenefits, Absent,
           Some([due |-> Some(BadDate), Rd |-> 3]), Absent, Absent, Absent, FALSE),
    mkTask(0, "outro", Absent, Absent, Absent, HighBenefits, Absent,
           Some([due |-> Some(Now0 + DAY), Rd |-> 2]), Absent, Absent, Absent, FALSE),
    mkTask(0, "outro", Absent, Absent, Absent, HighBenefits, Absent, Absent,
           Some({1}), Absent, Absent, FALSE),
    mkTask(0, "outro", Absent, Absent, Absent, HighBenefits, Absent, Absent,
           Absent, Absent, Absent, TRUE),
    mkTask(0, "outro", Absent, Absent, Absent, HighBenefits,
           Some([G |-> 5, U |-> 4, betaG |-> Absent, betaU |-> Absent]), Absent,
           Absent, Absent, Absent, FALSE),
    mkTask(0, "estudo", Some(30), Absent, Absent, HighBenefits, Absent, Absent,
           Absent, Absent, Absent, FALSE),
    mkTask(0, "estudo", Some(60), Absent, Absent, HighBenefits, Absent, Absent,
           Absent, Absent, Absent, FALSE) }

\* the collections of n tasks with ids 1..n
SortCollections(n) ==
  { [i \in 1..n |-> [f[i] EXCEPT !.id = i]] : f \in [1..n -> SortBodies] }

InitSort ==
  /\ pc = "ready"
  /\ argTask = NoTask
  /\ \E n \in 0..MaxTasks : argTasks \in SortCollections(n)
  /\ argNow = Now0
  /\ argPrefs = defaultPrefs
  /\ score = 0
  /\ rescore = 0
  /\ sorted1 = <<>>
  /\ sorted2 = <<>>
  /\ clock = Now0
  /\ fargs = NoArgs
  /\ fret = 0
  /\ fprev = 0
  /\ fraised = "none"
  /\ state = InitialState
  /\ generated = 0

\* time passes
Tick ==
  /\ clock < Now0 + MaxTicks * TickHours
  /\ clock' = clock + TickHours
  /\ UNCHANGED <<pc, argTask, argTasks, argNow, argPrefs, score, rescore,
                 sorted1, sorted2, fargs, fret, fprev, fraised>>
  /\ UNCHANGED <<state, generated>>

\* sortTasksByPriority writing the scores into the tasks it is given and
\* sorting the array it is given
Sort1_inPlace ==
  /\ pc = "ready"
  /\ sorted1' = sortTasksByPriority(argTasks, argNow, argPrefs)
  /\ argTasks' = sorted1'
  /\ pc' = "sorted1"
  /\ UNCHANGED <<argTask, argNow, argPrefs, score, rescore, sorted2,
                 clock, fargs, fret, fprev, fraised>>
  /\ UNCHANGED <<state, generated>>

\* sortTasksByPriority(tasks, now, prefs)
Sort1 ==
  /\ pc = "ready"
  /\ sorted1' = sortTasksByPriority(argTasks, argNow, argPrefs)
  /\ pc' = "sorted1"
  /\ UNCHANGED <<argTask, argTasks, argNow, argPrefs, score, rescore, sorted2,
                 clock, fargs, fret, fprev, fraised>>
  /\ UNCHANGED <<state, generated>>

\* sortTasksByPriority(tasks, now, prefs) again, with the same arguments
Sort2 ==
  /\ pc = "sorted1"
  /\ sorted2' = sortTasksByPriority(argTasks, argNow, argPrefs)
  /\ pc' = "sorted2"
  /\ UNCHANGED <<argTask, argTasks, argNow, argPrefs, score, rescore, sorted1,
                 clock, fargs, fret, fprev, fraised>>
  /\ UNCHANGED <<state, generated>>

\* sortTasksByPriority(ranked, now, prefs) on the collection the first call
\* returned
SortRanked ==
  /\ pc = "sorted1"
  /\ sorted2' = sortTasksByPriority(sorted1, argNow, argPrefs)
  /\ pc' = "reranked"
  /\ UNCHANGED <<argTask, argTasks, argNow, argPrefs, score, rescore, sorted1,
                 clock, fargs, fret, fprev, fraised>>
  /\ UNCHANGED <<state, generated>>

\* scoreTask(tasks[i], now, prefs, tasks) for one task of the collection
ScoreMember ==
  /\ pc = "ready"
  /\ \E i \in DOMAIN argTasks :
       /\ argTask' = argTasks[i]
       /\ score' = scoreTask(argTasks[i], argNow, argPrefs, argTasks)
  /\ pc' = "scored"
  /\ UNCHANGED <<argTasks, argNow, argPrefs, rescore, sorted1, sorted2, clock,
                 fargs, fret, fprev, fraised>>
  /\ UNCHANGED <<state, generated>>

NextSort == Tick \/ Sort1 \/ Sort2 \/ SortRanked \/ ScoreMember

SpecSort == InitSort /\ [][NextSort]_vars

\* ------------------------------------------------------------------------
\* Properties of sortTasksByPriority (SpecSort)
\* ------------------------------------------------------------------------

\* how often id occurs in a collection
countId(ts, id) == Cardinality({i \in DOMAIN ts : ts[i].id = id})

\* C7: the result holds exactly the tasks of the input (same ids, same
\* multiplicity, same length), each with priorityScore = scoreTask of that
\* task against the full input, and each task's priorityScore is greater
\* than or equal to the next one's
C7_SortedPermutationWithScores ==
  pc = "sorted1" =>
    /\ Len(sorted1) = Len(argTasks)
    /\ \A i \in DOMAIN argTasks :
         countId(sorted1, argTasks[i].id) = countId(argTasks, argTasks[i].id)
    /\ \A i \in DOMAIN sorted1 :
         \E j \in DOMAIN argTasks :
           sorted1[i] = [argTasks[j] EXCEPT !.priorityScore =
                           Some(scoreTask(argTasks[j], argNow, argPrefs, argTasks))]
    /\ \A i \in 1..(Len(sorted1) - 1) :
         Ge(Val(sorted1[i].priorityScore), Val(sorted1[i + 1].priorityScore))

S0Weights == {0, 3, 4, 10}

\* benefits handed to calcS0Base
S0BenefitValues == {0, 2, 7, 8, 10}

\* SCALE handed to calcS0Base
S0Scales == {Absent, Some(Num(10)), Some(Num(1))}

S0Args ==
  { [fn |-> "calcS0Base", wd |-> Tenths(wd), wf |-> Tenths(wf), wm |-> Tenths(wm),
     bd |-> Num(bd), bf |-> Num(bf), bm |-> Num(bm), SCALE |-> sc] :
    wd \in S0Weights, wf \in S0Weights, wm \in S0Weights,
    bd \in S0BenefitValues, bf \in S0BenefitValues, bm \in S0BenefitValues,
    sc \in S0Scales }

\* rates, amounts and setup cost handed to calcCost, some of them negative
CostRates == {0 - ONE, 2 * ONE, 8 * ONE}
CostAmounts == {0 - 2 * ONE, 0, ONE, 3 * ONE}
CostSetups == {0 - 5 * ONE, 5 * ONE}

CostArgs ==
  { [fn |-> "calcCost", ct |-> ct, ce |-> ce, cS |-> cS, kSetup |-> k,
     horas |-> h, esforco |-> e, dinheiro |-> d] :
    ct \in CostRates, ce \in CostRates, cS \in CostRates, k \in CostSetups,
    h \in CostAmounts, e \in CostAmounts, d \in CostAmounts }

\* what an argument is raised by
CostRaises == {ONE \div 2, 2 * ONE}

InitFormulas ==
  /\ pc = "ready"
  /\ argTask = NoTask
  /\ argTasks = <<>>
  /\ argNow = Now0
  /\ argPrefs = defaultPrefs
  /\ score = 0
  /\ rescore = 0
  /\ sorted1 = <<>>
  /\ sorted2 = <<>>
  /\ clock = Now0
  /\ fargs \in S0Args \cup CostArgs
  /\ fret = 0
  /\ fprev = 0
  /\ fraised = "none"
  /\ state = InitialState
  /\ generated = 0

\* calcS0Base(fargs)
CallS0Base ==
  /\ pc = "ready"
  /\ fargs.fn = "calcS0Base"
  /\ fret' = calcS0Base(fargs)
  /\ pc' = "returned"
  /\ UNCHANGED <<argTask, argTasks, argNow, argPrefs, score, rescore, sorted1,
                 sorted2, clock, fargs, fprev, fraised>>
  /\ UNCHANGED <<state, generated>>

\* calcCost(fargs)
CallCost ==
  /\ pc = "ready"
  /\ fargs.fn = "calcCost"
  /\ fret' = calcCost(fargs)
  /\ pc' = "returned"
  /\ UNCHANGED <<argTask, argTasks, argNow, argPrefs, score, rescore, sorted1,
                 sorted2, clock, fargs, fprev, fraised>>
  /\ UNCHANGED <<state, generated>>

\* calcCost again, with one of horas, esforco and dinheiro raised and the
\* other arguments as before
CallCostRaised ==
  /\ pc = "returned"
  /\ fargs.fn = "calcCost"
  /\ \E f \in {"horas", "esforco", "dinheiro"}, r \in CostRaises :
       /\ fargs' = [fargs EXCEPT ![f] = @ + r]
       /\ fraised' = f
  /\ fprev' = fret
  /\ fret' = calcCost(fargs')
  /\ pc' = "raised"
  /\ UNCHANGED <<argTask, argTasks, argNow, argPrefs, score, rescore, sorted1,
                 sorted2, clock>>
  /\ UNCHANGED <<state, generated>>

NextFormulas == CallS0Base \/ CallCost \/ CallCostRaised

SpecFormulas == InitFormulas /\ [][NextFormulas]_vars

\* ------------------------------------------------------------------------
\* Properties of the formulas (SpecFormulas)
\* ------------------------------------------------------------------------

\* a weight in tenths and a whole benefit, read back from their numbers
tenthsOf(w) == w \div (ONE \div 10)
wholeOf(b) == b \div ONE

\* C9: with SCALE = 10 calcS0Base returns exactly
\* 10 * (wd*bd + wf*bf + wm*bm); wd=0.4, wf=0.3, wm=0.3, bd=8, bf=2, bm=7
\* gives 59
C9_S0BaseFormula ==
  ( /\ pc = "returned"
    /\ fargs.fn = "calcS0Base"
    /\ fargs.SCALE \in {Absent, Some(Num(10))} )
  => /\ fret = ONE * ( tenthsOf(fargs.wd) * wholeOf(fargs.bd)
                       + tenthsOf(fargs.wf) * wholeOf(fargs.bf)
                       + tenthsOf(fargs.wm) * wholeOf(fargs.bm) )
     /\ ( /\ fargs.wd = Tenths(4) /\ fargs.wf = Tenths(3) /\ fargs.wm = Tenths(3)
          /\ fargs.bd = Num(8) /\ fargs.bf = Num(2) /\ fargs.bm = Num(7) )
        => fret = Num(59)

\* calcS0Base has returned 59 for the weights 0.4, 0.3, 0.3 and the
\* benefits 8, 2, 7 with SCALE left to its default
C9_Witness ==
  /\ pc = "returned"
  /\ fargs.fn = "calcS0Base"
  /\ fargs.SCALE = Absent
  /\ fargs.wd = Tenths(4) /\ fargs.wf = Tenths(3) /\ fargs.wm = Tenths(3)
  /\ fargs.bd = Num(8) /\ fargs.bf = Num(2) /\ fargs.bm = Num(7)
  /\ fret = Num(59)

\* ct*horas + ce*esforco + c$*dinheiro + kSetup, from whole numbers
costSum(c) ==
  ( wholeOf(c.ct) * c.horas + wholeOf(c.ce) * c.esforco
    + wholeOf(c.cS) * c.dinheiro + c.kSetup )

\* the rate that multiplies the argument f of calcCost
rateOf(c, f) ==
  IF f = "horas" THEN c.ct ELSE IF f = "esforco" THEN c.ce ELSE c.cS

\* calcCost returns max(0, ct*horas + ce*esforco + c$*dinheiro + kSetup),
\* which is never negative
CostIsFlooredSum ==
  (fargs.fn = "calcCost" /\ pc \in {"returned", "raised"}) =>
    /\ fret >= 0
    /\ fret = (IF costSum(fargs) > 0 THEN costSum(fargs) ELSE 0)

\* C10 as stated: calcCost returns the floored sum, never negative, and
\* raising one of horas, esforco and dinheiro never lowers the cost
C10_CostMonotone ==
  /\ CostIsFlooredSum
  /\ (fargs.fn = "calcCost" /\ pc = "raised") => fret >= fprev

\* C10 as amended: calcCost returns the floored sum, never negative, and
\* raising horas, esforco or dinheiro never lowers the cost when the rate
\* that multiplies it (ct, ce, c$) is not negative
C10_CostMonotoneForNonNegativeRate ==
  /\ CostIsFlooredSum
  /\ (fargs.fn = "calcCost" /\ pc = "raised" /\ rateOf(fargs, fraised) >= 0)
       => fret >= fprev

\* an argument with a positive rate was raised from a negative value and
\* the cost rose from the floor 0 to above it
C10_Witness ==
  /\ fargs.fn = "calcCost"
  /\ pc = "raised"
  /\ rateOf(fargs, fraised) > 0
  /\ fprev = 0
  /\ fret > 0

\* ------------------------------------------------------------------------
\* Calls of the adjustment stages and of the validators
\* ------------------------------------------------------------------------

\* raw benefits handed to applyGUT and applyDecay
StageScores == {0 - Num(10), 0, Num(59), Num(100)}

GutLevels == 1 .. 5
GutBetaGs == {Absent, Some(Tenths(5)), Some(0), Some(0 - Tenths(2))}
GutBetaUs == {Absent, Some(Tenths(5))}

GutArgs ==
  { [fn |-> "applyGUT", S0 |-> s,
     gut |-> [G |-> g, U |-> u, betaG |-> bg, betaU |-> bu]] :
    s \in StageScores, g \in GutLevels, u \in GutLevels,
    bg \in GutBetaGs, bu \in GutBetaUs }

\* days to the deadline, base rates and rigidities handed to applyDecay
DecayDays == {0, ONE \div 2, ONE, 3 * ONE, 12 * ONE}
DecayRates == {0, ONE \div 4, ONE \div 2}
DecayRigidities == {1, 3, 5}

DecayArgs ==
  { [fn |-> "applyDecay", S0G |-> s, deltaDays |-> dd, lambda0 |-> l, Rd |-> r] :
    s \in StageScores, dd \in DecayDays, l \in DecayRates, r \in DecayRigidities }

\* what deltaDays is raised by
DecayRaises == {ONE \div 2, 2 * ONE, 10 * ONE}

\* hours, base benefits and saturation rates handed to continuousBenefit
BenefitHours == {0 - ONE, 0, ONE \div 2, ONE, 2 * ONE, 9 * ONE, 30 * ONE}
BenefitBases == {ONE, 2 * ONE}
BenefitRates == {Tenths(4), Tenths(5), Tenths(6), Tenths(7)}

BenefitArgs ==
  { [fn |-> "continuousBenefit", H |-> h, b0 |-> b, k |-> k] :
    h \in BenefitHours, b \in BenefitBases, k \in BenefitRates }

\* what H is raised by
BenefitRaises == {ONE \div 2, 20 * ONE}

\* minutes and efforts handed to the validators: both sides of every limit
\* of CONSTRAINTS
ValidateMinutes ==
  {4, 5, 6, 29, 30, 31, 44, 45, 46, 59, 60, 61, 89, 90, 91, 119, 120, 121,
   179, 180, 181, 419, 420, 421, 479, 480, 481, 539, 540, 541}
ValidateEfforts == 0 .. 11

ValidateArgs ==
  { [fn |-> "validateDuration", type |-> t, v |-> m] :
    t \in ScoreTypes, m \in ValidateMinutes }
  \cup { [fn |-> "validateEffort", type |-> t, v |-> e] :
         t \in ScoreTypes, e \in ValidateEfforts }

InitStageCalls ==
  /\ pc = "ready"
  /\ argTask = NoTask
  /\ argTasks = <<>>
  /\ argNow = Now0
  /\ argPrefs = defaultPrefs
  /\ score = 0
  /\ rescore = 0
  /\ sorted1 = <<>>
  /\ sorted2 = <<>>
  /\ clock = Now0
  /\ fargs \in GutArgs \cup DecayArgs \cup BenefitArgs \cup ValidateArgs
  /\ fret = 0
  /\ fprev = 0
  /\ fraised = "none"
  /\ state = InitialState
  /\ generated = 0

\* applyGUT(S0, gut)
CallGUT ==
  /\ pc = "ready"
  /\ fargs.fn = "applyGUT"
  /\ fret' = applyGUT(fargs.S0, fargs.gut)
  /\ pc' = "returned"
  /\ UNCHANGED <<argTask, argTasks, argNow, argPrefs, score, rescore, sorted1,
                 sorted2, clock, fargs, fprev, fraised>>
  /\ UNCHANGED <<state, generated>>

\* applyDecay(S0G, {deltaDays, lambda0, Rd})
CallDecay ==
  /\ pc = "ready"
  /\ fargs.fn = "applyDecay"
  /\ fret' = applyDecay(fargs.S0G, fargs)
  /\ pc' = "returned"
  /\ UNCHANGED <<argTask, argTasks, argNow, argPrefs, score, rescore, sorted1,
                 sorted2, clock, fargs, fprev, fraised>>
  /\ UNCHANGED <<state, generated>>

\* applyDecay again, with deltaDays raised and the other arguments as before
CallDecayLater ==
  /\ pc = "returned"
  /\ fargs.fn = "applyDecay"
  /\ \E r \in DecayRaises : fargs' = [fargs EXCEPT !.deltaDays = @ + r]
  /\ fraised' = "deltaDays"
  /\ fprev' = fret
  /\ fret' = applyDecay(fargs'.S0G, fargs')
  /\ pc' = "raised"
  /\ UNCHANGED <<argTask, argTasks, argNow, argPrefs, score, rescore, sorted1,
                 sorted2, clock>>
  /\ UNCHANGED <<state, generated>>

\* continuousBenefit(H, b0, k)
CallBenefit ==
  /\ pc = "ready"
  /\ fargs.fn = "continuousBenefit"
  /\ fret' = continuousBenefit(fargs.H, fargs.b0, fargs.k)
  /\ pc' = "returned"
  /\ UNCHANGED <<argTask, argTasks, argNow, argPrefs, score, rescore, sorted1,
                 sorted2, clock, fargs, fprev, fraised>>
  /\ UNCHANGED <<state, generated>>

\* continuousBenefit again, with H raised and the other arguments as before
CallBenefitLonger ==
  /\ pc = "returned"
  /\ fargs.fn = "continuousBenefit"
  /\ \E r \in BenefitRaises : fargs' = [fargs EXCEPT !.H = @ + r]
  /\ fraised' = "H"
  /\ fprev' = fret
  /\ fret' = continuousBenefit(fargs'.H, fargs'.b0, fargs'.k)
  /\ pc' = "raised"
  /\ UNCHANGED <<argTask, argTasks, argNow, argPrefs, score, rescore, sorted1,
                 sorted2, clock>>
  /\ UNCHANGED <<state, generated>>

\* validateDuration(type, minutes)
CallValidateDuration ==
  /\ pc = "ready"
  /\ fargs.fn = "validateDuration"
  /\ fret' = validateDuration(fargs.type, fargs.v)
  /\ pc' = "returned"
  /\ UNCHANGED <<argTask, argTasks, argNow, argPrefs, score, rescore, sorted1,
                 sorted2, clock, fargs, fprev, fraised>>
  /\ UNCHANGED <<state, generated>>

\* validateEffort(type, effort)
CallValidateEffort ==
  /\ pc = "ready"
  /\ fargs.fn = "validateEffort"
  /\ fret' = validateEffort(fargs.type, fargs.v)
  /\ pc' = "returned"
  /\ UNCHANGED <<argTask, argTasks, argNow, argPrefs, score, rescore, sorted1,
                 sorted2, clock, fargs, fprev, fraised>>
  /\ UNCHANGED <<state, generated>>

\* ------------------------------------------------------------------------
\* Paired calls of scoreTask: a task, then the same task with one field
\* changed
\* ------------------------------------------------------------------------

TwinDurations == {Absent, Some(3), Some(60), Some(450)}
TwinEfforts == {Absent, Some(3), Some(7)}

\* gut objects: gravity below, at and above neutral
TwinGuts ==
  { [G |-> g, U |-> u.U, betaG |-> bg, betaU |-> u.betaU] :
    g \in {1, 3, 5},
    u \in {[U |-> 1, betaU |-> Absent], [U |-> 5, betaU |-> Some(Tenths(5))]},
    bg \in {Absent, Some(Tenths(5))} }

\* deadlines: overdue, now, ahead and unparsable; flexible to rigid
TwinDues == {Now0 - DAY, Now0, Now0 + DAY, Now0 + 3 * DAY, BadDate}
TwinRigidities == {1, 3, 5}

TwinDecays ==
  { [due |-> Some(due), Rd |-> r] : due \in TwinDues, r \in TwinRigidities }

\* start and end: elapsed, current, future and instantaneous windows, then
\* one bound only, a start after the end and an unparsable start
TwinWindows ==
  { [start |-> Some(Now0 - 2 * DAY), end |-> Some(Now0 - DAY)],
    [start |-> Some(Now0 - DAY), end |-> Some(Now0 + DAY)],
    [start |-> Some(Now0 + DAY), end |-> Some(Now0 + 2 * DAY)],
    [start |-> Some(Now0), end |-> Some(Now0)],
    [start |-> Absent, end |-> Some(Now0 - DAY)],
    [start |-> Some(Now0 - DAY), end |-> Absent],
    [start |-> Some(Now0 + DAY), end |-> Some(Now0 - DAY)],
    [start |-> Some(BadDate), end |-> Some(Now0 - DAY)] }

\* every pillar's benefit at the top of its scale
TopBenefits == Some([bd |-> 10, bf |-> 10, bm |-> 10])

\* the fields left out of every plain task
PlainExtra ==
  [ money |-> Absent, benefits |-> Some([bd |-> 8, bf |-> 2, bm |-> 7]),
    gut |-> Absent, decay |-> Absent, start |-> Absent, end |-> Absent,
    deps |-> Absent, completed |-> FALSE, weights |-> DEFAULTS.defaultWeights ]

\* the plain task with one group of fields filled in
TwinExtras ==
  {PlainExtra}
  \cup { [PlainExtra EXCEPT !.money = Some(m)] : m \in {0, 3} }
  \cup { [PlainExtra EXCEPT !.benefits = Absent] }
  \cup { [PlainExtra EXCEPT !.benefits = TopBenefits] }
  \cup { [PlainExtra EXCEPT !.benefits = TopBenefits, !.gut = Some(g)] :
         g \in {h \in TwinGuts : h.G = 5 /\ h.U = 1} }
  \cup { [PlainExtra EXCEPT !.weights = DevelopmentWeights] }
  \cup { [PlainExtra EXCEPT !.gut = Some(g)] : g \in TwinGuts }
  \cup { [PlainExtra EXCEPT !.decay = Some(d)] : d \in TwinDecays }
  \cup { [PlainExtra EXCEPT !.start = w.start, !.end = w.end] : w \in TwinWindows }
  \cup { [PlainExtra EXCEPT !.deps = Some({1})] }
  \cup { [PlainExtra EXCEPT !.completed = TRUE] }
  \cup { [PlainExtra EXCEPT !.gut = Some(g),
                            !.decay = Some([due |-> Some(Now0 + DAY), Rd |-> 3])] :
         g \in {h \in TwinGuts : h.G = 5 /\ h.betaG = Absent} }
  \cup { [PlainExtra EXCEPT !.start = Some(Now0 - 2 * DAY),
                            !.end = Some(Now0 - DAY), !.deps = Some({1})] }

TwinCollections == { <<member(1, TRUE)>>, <<member(1, FALSE)>> }

InitTwin ==
  /\ pc = "ready"
  /\ \E type \in ScoreTypes, d \in TwinDurations, e \in TwinEfforts,
        x \in TwinExtras :
       /\ argTask = mkTask(3, type, d, e, x.money, x.benefits, x.gut, x.decay, x.deps, x.start, x.end, x.completed)
       /\ argPrefs = [weights |-> x.weights]
  /\ argTasks \in TwinCollections
  /\ argNow = Now0
  /\ score = 0
  /\ rescore = 0
  /\ sorted1 = <<>>
  /\ sorted2 = <<>>
  /\ clock = Now0
  /\ fargs = [fn |-> "scoreTask"]
  /\ fret = 0
  /\ fprev = 0
  /\ fraised = "none"
  /\ state = InitialState
  /\ generated = 0

\* scoreTask(task, now, prefs, allTasks)
ScoreOriginal ==
  /\ pc = "ready"
  /\ fargs.fn = "scoreTask"
  /\ score' = scoreTask(argTask, argNow, argPrefs, argTasks)
  /\ pc' = "scored"
  /\ UNCHANGED <<argTask, argTasks, argNow, argPrefs, rescore, sorted1, sorted2, clock,
                 fargs, fret, fprev, fraised>>
  /\ UNCHANGED <<state, generated>>

\* other urgencies and urgency weights
TwinUrgencies == {3, 4}
TwinBetaUs == {Absent, Some(Tenths(20))}

\* what a deadline is moved away by, in hours
TwinDelays == {DAY \div 2, 2 * DAY, 40 * DAY}

\* the tasks that are task with the one field changed: an absent
\* durationMin, effort or money filled in with its fallback, an unregistered
\* type replaced by 'outro', another gut.U and gut.betaU, an absent gut
\* replaced by a neutral one, the deadline dropped, the deadline moved away
twinsOf(task, field) ==
  IF field = "durationMin"
  THEN IF Has(task.durationMin) THEN {}
       ELSE {[task EXCEPT !.durationMin = Some(60)]}
  ELSE IF field = "effort"
  THEN IF Has(task.effort) THEN {} ELSE {[task EXCEPT !.effort = Some(3)]}
  ELSE IF field = "money"
  THEN IF Has(task.money) THEN {} ELSE {[task EXCEPT !.money = Some(0)]}
  ELSE IF field = "type"
  THEN IF task.type \in TaskTypes THEN {} ELSE {[task EXCEPT !.type = "outro"]}
  ELSE IF field = "gut.U"
  THEN IF ~Has(task.gut) THEN {}
       ELSE { [task EXCEPT !.gut = Some([Val(task.gut) EXCEPT !.U = u, !.betaU = bu])] :
              u \in TwinUrgencies, bu \in TwinBetaUs }
  ELSE IF field = "gut"
  THEN IF Has(task.gut) THEN {}
       ELSE { [task EXCEPT !.gut = Some([G |-> 3, U |-> u, betaG |-> bg, betaU |-> Absent])] :
              u \in {1, 5}, bg \in {Absent, Some(Tenths(5))} }
  ELSE IF field = "decay"
  THEN IF ~HasDue(task) THEN {} ELSE {[task EXCEPT !.decay = Absent]}
  ELSE IF field = "decay.due"
  THEN IF ~HasDue(task) \/ Val(Val(task.decay).due) = BadDate THEN {}
       ELSE { [task EXCEPT !.decay = Some([Val(task.decay) EXCEPT !.due = Some(Val(@) + r)])] :
              r \in TwinDelays }
  ELSE {}

TwinFields ==
  {"durationMin", "effort", "money", "type", "gut.U", "gut", "decay", "decay.due"}

\* the caller replaces task by one of its twins; fprev keeps the original
Substitute ==
  /\ pc = "scored"
  /\ fargs.fn = "scoreTask"
  /\ \E field \in TwinFields :
       /\ fraised' = field
       /\ argTask' \in twinsOf(argTask, field)
  /\ fprev' = argTask
  /\ pc' = "substituted"
  /\ UNCHANGED <<argTasks, argNow, argPrefs, score, rescore, sorted1, sorted2, clock,
                 fargs, fret>>
  /\ UNCHANGED <<state, generated>>

\* scoreTask(twin, now, prefs, allTasks)
ScoreTwin ==
  /\ pc = "substituted"
  /\ rescore' = scoreTask(argTask, argNow, argPrefs, argTasks)
  /\ pc' = "twinScored"
  /\ UNCHANGED <<argTask, argTasks, argNow, argPrefs, score, sorted1, sorted2, clock,
                 fargs, fret, fprev, fraised>>
  /\ UNCHANGED <<state, generated>>

InitStages == InitStageCalls \/ InitTwin

NextStages ==
  \/ CallGUT
  \/ CallDecay
  \/ CallDecayLater
  \/ CallBenefit
  \/ CallBenefitLonger
  \/ CallValidateDuration
  \/ CallValidateEffort
  \/ ScoreOriginal
  \/ Substitute
  \/ ScoreTwin

SpecStages == InitStages /\ [][NextStages]_vars

\* ------------------------------------------------------------------------
\* Properties of the adjustment stages (SpecStages)
\* ------------------------------------------------------------------------

\* the gravity weight applyGUT uses
gutBetaG(gut) == IF Has(gut.betaG) THEN Val(gut.betaG) ELSE DEFAULTS.gut.betaG

GutReturned == pc = "returned" /\ fargs.fn = "applyGUT"

\* C11 as stated: for every S0 and every U, applyGUT(S0, {G: 5, U}) returns
\* S0G strictly greater than S0 whenever betaG > 0
C11_GravityFiveIncreases ==
  (GutReturned /\ fargs.gut.G = 5 /\ gutBetaG(fargs.gut) > 0)
    => fret.S0G > fargs.S0

\* C11 as amended: for every S0 > 0 and every U, applyGUT(S0, {G: 5, U})
\* returns S0G strictly greater than S0 whenever betaG > 0;
\* applyGUT(100, {G: 5, U: 4}) returns S0G = 140
C11_GravityFiveIncreasesPositive ==
  /\ (GutReturned /\ fargs.gut.G = 5 /\ gutBetaG(fargs.gut) > 0 /\ fargs.S0 > 0)
       => fret.S0G > fargs.S0
  /\ ( GutReturned /\ fargs.S0 = Num(100) /\ fargs.gut.G = 5
       /\ fargs.gut.betaG = Absent )
       => fret.S0G = Num(140)

\* applyGUT(100, {G: 5, U: 4}) has returned S0G = 140
C11_Witness ==
  /\ GutReturned
  /\ fargs.S0 = Num(100)
  /\ fargs.gut = [G |-> 5, U |-> 4, betaG |-> Absent, betaU |-> Absent]
  /\ fret.S0G = Num(140)

\* the deadline of task is at or before now
DueNotAfter(t, now) == HasDue(t) /\ Le(getTime(Val(Val(t.decay).due)), now)

\* C12: applyDecay returns S0G unchanged when deltaDays = 0 or Rd = 1, and
\* a task whose decay.due is at or before the current time or whose Rd is 1
\* scores the same as the same task with no deadline
C12_DecayIdentity ==
  /\ ( pc \in {"returned", "raised"} /\ fargs.fn = "applyDecay"
       /\ (fargs.deltaDays = 0 \/ fargs.Rd = 1) )
       => fret = fargs.S0G
  /\ ( pc = "twinScored" /\ fraised = "decay"
       /\ (DueNotAfter(fprev, argNow) \/ Val(fprev.decay).Rd = 1) )
       => rescore = score

DecayRaised == pc = "raised" /\ fargs.fn = "applyDecay"

\* the test of priority.test.ts: applyDecay(100, {deltaDays: 1,
\* lambda0: 0.25, Rd: 5}) < 100
DecayTestCase ==
  ( pc \in {"returned", "raised"} /\ fargs.fn = "applyDecay"
    /\ fargs.S0G = Num(100) /\ fargs.deltaDays = ONE
    /\ fargs.lambda0 = ONE \div 4 /\ fargs.Rd = 5 )
    => fret < Num(100)

\* scoreTask never gives the task with the more distant deadline the higher
\* score
LaterDeadlineNeverHigher ==
  (pc = "twinScored" /\ fraised = "decay.due") => ~Gt(rescore, score)

BenefitReturned ==
  pc \in {"returned", "raised"} /\ fargs.fn = "continuousBenefit"

BenefitRaised == pc = "raised" /\ fargs.fn = "continuousBenefit"

FirstScored == pc = "scored" /\ fargs.fn = "scoreTask"

\* both calls of scoreTask have returned, the second for the task with the
\* field f changed
TwinScored(f) == pc = "twinScored" /\ fraised = f

\* scoreTask reaches its practical gate: the task is not completed, passes
\* the duration and effort checks and its benefit is computed
ReachesGate(t) ==
  /\ ~t.completed
  /\ checkDurationConstraints(t)
  /\ checkEffortConstraints(t)
  /\ ~throwsInS0(t)

\* the priorityBase scoreTask hands to the practical gate
priorityBaseOf(t) == calcPriorityBase(S0DOf(t, argNow, argPrefs), costOf(t))

\* the task states no time
NoExplicitTime(t) == ~Has(t.start) /\ ~Has(t.end)

\* the task states a window: a start and an end that parse, in this order
StatesWindow(t) ==
  /\ Has(t.start) /\ Has(t.end)
  /\ Val(t.start) # BadDate /\ Val(t.end) # BadDate
  /\ Val(t.start) <= Val(t.end)

WindowInFuture(t, now) == StatesWindow(t) /\ Val(t.start) > now
WindowContains(t, now) ==
  StatesWindow(t) /\ Val(t.start) <= now /\ now <= Val(t.end)
WindowElapsed(t, now) == StatesWindow(t) /\ Val(t.end) < now

\* C15: a task whose window has fully elapsed (end before now) has Wwin = 0
\* and is scored 0; a task with no explicit time, or with a window that is
\* in the future or contains now, has Wwin = 1 and, with its dependencies
\* done, is scored its priorityBase
C15_WindowFlag ==
  (FirstScored /\ ReachesGate(argTask)) =>
    /\ WindowElapsed(argTask, argNow) => score = 0
    /\ ( /\ \/ NoExplicitTime(argTask)
            \/ WindowInFuture(argTask, argNow)
            \/ WindowContains(argTask, argNow)
         /\ DepsResolved(argTask, argTasks) )
         => score = priorityBaseOf(argTask)

\* a task with a positive priorityBase and its dependencies done was scored
\* 0 because its window has elapsed
C15_Witness ==
  /\ FirstScored
  /\ ReachesGate(argTask)
  /\ WindowElapsed(argTask, argNow)
  /\ DepsResolved(argTask, argTasks)
  /\ Gt(priorityBaseOf(argTask), 0)
  /\ score = 0

\* C16: a task with durationMin absent is scored the same as the same task
\* with durationMin = 60, with effort absent the same as with effort = 3,
\* with money absent the same as with money = 0, for every category
C16_AbsentScoresAsFallback ==
  (TwinScored("durationMin") \/ TwinScored("effort") \/ TwinScored("money"))
    => rescore = score

\* C17 as stated: a task whose type is not a registered category is scored
\* exactly as the same task with type 'outro'
C17_UnknownTypeScoresAsOutro == TwinScored("type") => rescore = score

\* C17 as amended: a task whose type is not a registered category is scored
\* as the same task with type 'outro' without outro's duration and effort
\* ranges: the two scores are equal when the 'outro' task passes the
\* duration and effort checks, and the 'outro' task scores 0 when it does
\* not
C17_UnknownTypeScoresAsUncheckedOutro ==
  TwinScored("type") =>
    rescore = (IF checkDurationConstraints(argTask) /\ checkEffortConstraints(argTask)
               THEN score ELSE 0)

\* a task of an unregistered category and its 'outro' twin were both scored
\* the same positive value
C17_Witness ==
  /\ TwinScored("type")
  /\ fprev.type = UnknownType
  /\ argTask.type = "outro"
  /\ Gt(score, 0)
  /\ rescore = score

ValidateReturned(f) == pc = "returned" /\ fargs.fn = f

\* C18: validateDuration and validateEffort return true exactly when no
\* range is registered for the category or min <= v <= max, both limits
\* included: estudo admits 45 and 120 minutes but not 44 or 121, sono
\* admits effort 1 and 3 but not 0 or 4
C18_ValidateInclusiveRange ==
  /\ ValidateReturned("validateDuration") =>
       /\ fret = ( \/ fargs.type \notin DOMAIN CONSTRAINTS.duration
                   \/ /\ CONSTRAINTS.duration[fargs.type].min <= fargs.v
                      /\ fargs.v <= CONSTRAINTS.duration[fargs.type].max )
       /\ fargs.type = "estudo" => fret = (45 <= fargs.v /\ fargs.v <= 120)
       /\ fargs.type = UnknownType => fret = TRUE
  /\ ValidateReturned("validateEffort") =>
       /\ fret = ( \/ fargs.type \notin DOMAIN CONSTRAINTS.effort
                   \/ /\ CONSTRAINTS.effort[fargs.type].min <= fargs.v
                      /\ fargs.v <= CONSTRAINTS.effort[fargs.type].max )
       /\ fargs.type = "sono" => fret = (1 <= fargs.v /\ fargs.v <= 3)
       /\ fargs.type = UnknownType => fret = TRUE

\* validateDuration('estudo', 120) has returned true: the upper limit is
\* admitted
C18_Witness ==
  /\ ValidateReturned("validateDuration")
  /\ fargs.type = "estudo"
  /\ fargs.v = 120
  /\ fret = TRUE

\* the urgency weight applyGUT uses
gutBetaU(gut) == IF Has(gut.betaU) THEN Val(gut.betaU) ELSE DEFAULTS.gut.betaU

\* C19: two tasks that differ only in gut.U and gut.betaU receive the same
\* score; U only enters the helper tAdj, with tAdj(h) = h + betaU * (U - 3)
C19_UrgencyNotInScore ==
  /\ TwinScored("gut.U") => rescore = score
  /\ GutReturned =>
       \A h \in TAdjHours :
         fret.tAdj[h] = h + gutBetaU(fargs.gut) * (fargs.gut.U - 3)

\* a task with gravity 5 and its twin with another urgency and urgency
\* weight were both scored the same positive value
C19_Witness ==
  /\ TwinScored("gut.U")
  /\ Val(fprev.gut).G = 5
  /\ Val(fprev.gut).U # Val(argTask.gut).U
  /\ Val(fprev.gut).betaU # Val(argTask.gut).betaU
  /\ Gt(score, 0)
  /\ rescore = score

\* C20: applyGUT with G = 3 returns S0G = S0 for every S0, U and betaG, and
\* a task with no gut data is scored the same as the same task with a gut
\* of G = 3
C20_NeutralGravityIsNoOp ==
  /\ (GutReturned /\ fargs.gut.G = 3) => fret.S0G = fargs.S0
  /\ TwinScored("gut") => rescore = score

\* a task with no gut and its twin with G = 3 and an explicit betaG were
\* both scored the same positive value
C20_Witness ==
  /\ TwinScored("gut")
  /\ ~Has(fprev.gut)
  /\ Val(argTask.gut).G = 3
  /\ Has(Val(argTask.gut).betaG)
  /\ Gt(score, 0)
  /\ rescore = score

\* ------------------------------------------------------------------------
\* The benefit stage of scoreTask (SpecStages)
\* ------------------------------------------------------------------------

\* the base formula on the task's benefits and the preferences' weights
baseS0(t, prefs) ==
  LET b == benefitsOrNaN(t)
  IN  calcS0Base([wd |-> prefs.weights.wd, wf |-> prefs.weights.wf,
                  wm |-> prefs.weights.wm, bd |-> b.bd, bf |-> b.bf,
                  bm |-> b.bm, SCALE |-> Absent])

\* the continuous formula with the category's b0 and k on the task's hours
continuousS0(t, prefs) ==
  calcS0Continuous(taskHoursOf(t), prefs.weights, benefitsOrNaN(t),
                   DEFAULTS.SCALE, DEFAULTS.continuous[t.type].b0,
                   DEFAULTS.continuous[t.type].k)

\* the task has neither GUT nor a deadline: its S0 goes to the cost
\* subtraction as it is
S0Unadjusted(t) == ~Has(t.gut) /\ ~HasDue(t)

\* what scoreTask returns for a task without GUT and deadline whose
\* benefit stage gave S0
scoreOfS0(S0, t) ==
  applyPracticalConstraints(
    calcPriorityBase(S0, costOf(t)),
    [Wwin |-> checkTimeWindow(t, argNow), depsDone |-> checkDependencies(t, argTasks)])

\* C24 as stated: S0 is the continuous formula exactly when the category is
\* estudo, treino, sono or leitura and the task has a duration; in every
\* other case, a continuous category without durationMin included, S0 is
\* the base formula
C24_ContinuousOnlyWithDuration ==
  (FirstScored /\ ReachesGate(argTask) /\ S0Unadjusted(argTask)) =>
    score = scoreOfS0(IF argTask.type \in ContinuousTypes /\ Has(argTask.durationMin)
                      THEN continuousS0(argTask, argPrefs)
                      ELSE baseS0(argTask, argPrefs),
                      argTask)

\* C24 as amended: S0 is the continuous formula exactly when the category
\* is estudo, treino, sono or leitura, on the task's duration in hours with
\* 60 minutes standing in for an absent or zero durationMin; every other
\* category uses the base formula
C24_ContinuousByCategory ==
  (FirstScored /\ ReachesGate(argTask) /\ S0Unadjusted(argTask)) =>
    score = scoreOfS0(IF argTask.type \in ContinuousTypes
                      THEN continuousS0(argTask, argPrefs)
                      ELSE baseS0(argTask, argPrefs),
                      argTask)

\* a task of a continuous category without durationMin was scored above 0
\* and not what the base formula gives
C24_Witness ==
  /\ FirstScored
  /\ ReachesGate(argTask)
  /\ S0Unadjusted(argTask)
  /\ argTask.type \in ContinuousTypes
  /\ ~Has(argTask.durationMin)
  /\ Gt(score, 0)
  /\ score = scoreOfS0(continuousS0(argTask, argPrefs), argTask)
  /\ score # scoreOfS0(baseS0(argTask, argPrefs), argTask)

\* the weights sum to 1
NormalizedSum(weights) == Add(Add(weights.wd, weights.wf), weights.wm) = ONE

\* every pillar's benefit is stated and within 0..10
BenefitsInScale(t) ==
  /\ Has(t.benefits)
  /\ \A p \in {"bd", "bf", "bm"} : Val(t.benefits)[p] \in 0..10

\* SCALE * 10
ScaleTimesTen == Mul(DEFAULTS.SCALE, Num(10))

\* SCALE * 10 * b0 / k for a continuous category: what the continuous
\* formula tends to for long durations and benefits of 10
continuousCeiling(type) ==
  Div(Mul(ScaleTimesTen, DEFAULTS.continuous[type].b0), DEFAULTS.continuous[type].k)

\* C23 as stated: with weights that sum to 1 and benefits in 0..10, S0D
\* never exceeds SCALE * 10 = 100 and no score exceeds 100
C23_BenefitWithinScale ==
  (FirstScored /\ ReachesGate(argTask) /\ NormalizedSum(argPrefs.weights)
     /\ BenefitsInScale(argTask)) =>
    /\ ~Gt(S0DOf(argTask, argNow, argPrefs), ScaleTimesTen)
    /\ ~Gt(score, ScaleTimesTen)

\* C23 as amended: with weights that sum to 1 and benefits in 0..10, a task
\* without GUT has S0D, and so a score, of at most SCALE * 10 = 100 when
\* its category is not continuous and of at most SCALE * 10 * b0 / k when it
\* is (250 for sono)
C23_BenefitWithinCategoryCeiling ==
  (FirstScored /\ ReachesGate(argTask) /\ NormalizedSum(argPrefs.weights)
     /\ BenefitsInScale(argTask) /\ ~Has(argTask.gut)) =>
    LET ceiling == IF argTask.type \in ContinuousTypes
                   THEN continuousCeiling(argTask.type) ELSE ScaleTimesTen
    IN  /\ ~Gt(S0DOf(argTask, argNow, argPrefs), ceiling)
        /\ ~Gt(score, ceiling)

\* a sono task without GUT with every benefit at 10 was scored above 100
C23_Witness ==
  /\ FirstScored
  /\ ReachesGate(argTask)
  /\ NormalizedSum(argPrefs.weights)
  /\ BenefitsInScale(argTask)
  /\ ~Has(argTask.gut)
  /\ argTask.type = "sono"
  /\ Gt(score, ScaleTimesTen)

\* ------------------------------------------------------------------------
\* Ties and purity of the ranking (SpecSort)
\* ------------------------------------------------------------------------

\* the position of the task with this id in a collection of distinct ids
positionOf(ts, id) == CHOOSE i \in DOMAIN ts : ts[i].id = id

\* the ids of a collection, in its order
idsOf(ts) == [i \in DOMAIN ts |-> ts[i].id]

OtherIds == {1, 2, 4}

\* ids of the tasks that are added
AddableIds == {1, 2, 4, 5}

\* the dependencies of the task scored: none, an empty list, tasks of the
\* collection, and a task that is not in it
OthersDeps == {Absent, Some({}), Some({1}), Some({1, 2}), Some({2, MissingId})}

\* the collections of other tasks: distinct ids in any order, each task
\* completed or not
OthersCollections ==
  { c \in UNION { [1..n -> { member(id, done) : id \in OtherIds, done \in BOOLEAN }] :
                  n \in 0..Cardinality(OtherIds) } :
      \A i, j \in DOMAIN c : i # j => c[i].id # c[j].id }

InitOthers ==
  /\ pc = "ready"
  /\ \E deps \in OthersDeps, decay \in {Absent, Some([due |-> Some(Now0 + DAY), Rd |-> 3])} :
       argTask = mkTask(3, "outro", Absent, Absent, Absent, HighBenefits, Absent, decay, deps, Absent, Absent, FALSE)
  /\ argTasks \in OthersCollections
  /\ argNow = Now0
  /\ argPrefs = defaultPrefs
  /\ score = 0
  /\ rescore = 0
  /\ sorted1 = <<>>
  /\ sorted2 = <<>>
  /\ clock = Now0
  /\ fargs = [fn |-> "scoreTask"]
  /\ fret = 0
  /\ fprev = 0
  /\ fraised = "none"
  /\ state = InitialState
  /\ generated = 0

\* the ids task.deps lists
depIdsOf(task) == IF Has(task.deps) THEN Val(task.deps) ELSE {}

\* another task with one field other than its id changed; its completed
\* flag only when the task scored does not depend on it
otherChanged(other, task) ==
  { [other EXCEPT !.type = "sono"],
    [other EXCEPT !.durationMin = Some(450)],
    [other EXCEPT !.benefits = Absent],
    [other EXCEPT !.deps = Some({task.id})],
    [other EXCEPT !.decay = Some([due |-> Some(BadDate), Rd |-> 1])],
    [other EXCEPT !.priorityScore = Some(Num(5))] }
  \cup (IF other.id \in depIdsOf(task) THEN {}
        ELSE {[other EXCEPT !.completed = ~other.completed]})

\* the collection without its i-th task
removeAt(ts, i) == SubSeq(ts, 1, i - 1) \o SubSeq(ts, i + 1, Len(ts))

\* the collection with x as its i-th task
insertAt(ts, i, x) == SubSeq(ts, 1, i - 1) \o <<x>> \o SubSeq(ts, i, Len(ts))

\* the collection with its i-th and (i+1)-th tasks exchanged
swapAt(ts, i) == [k \in DOMAIN ts |-> IF k = i THEN ts[i + 1] ELSE IF k = i + 1 THEN ts[i] ELSE ts[k]]

\* the collections that differ from allTasks in one way that leaves the
\* dependencies of task and their completed flags as they are
othersOf(allTasks, task, change) ==
  CASE change = "field" ->
         UNION { { [allTasks EXCEPT ![i] = o] : o \in otherChanged(allTasks[i], task) } :
                 i \in DOMAIN allTasks }
    [] change = "add" ->
         { insertAt(allTasks, i, member(id, done)) :
           i \in 1..(Len(allTasks) + 1),
           id \in AddableIds \ (depIdsOf(task) \cup {allTasks[k].id : k \in DOMAIN allTasks}),
           done \in BOOLEAN }
    [] change = "remove" ->
         { removeAt(allTasks, i) :
           i \in {k \in DOMAIN allTasks : allTasks[k].id \notin depIdsOf(task)} }
    [] change = "reorder" ->
         { swapAt(allTasks, i) :
           i \in {k \in 1..(Len(allTasks) - 1) :
                    allTasks[k].id \notin depIdsOf(task) \/ allTasks[k + 1].id \notin depIdsOf(task)} }

OthersChanges == {"field", "add", "remove", "reorder"}

\* the caller changes the rest of the collection between two calls
ChangeOthers ==
  /\ pc = "scored"
  /\ fargs.fn = "scoreTask"
  /\ \E change \in OthersChanges :
       /\ fraised' = change
       /\ argTasks' \in othersOf(argTasks, argTask, change)
  /\ fprev' = argTasks
  /\ pc' = "substituted"
  /\ UNCHANGED <<argTask, argNow, argPrefs, score, rescore, sorted1, sorted2, clock,
                 fargs, fret>>
  /\ UNCHANGED <<state, generated>>

NextOthers == ScoreOriginal \/ ChangeOthers \/ ScoreTwin

SpecOthers == InitOthers /\ [][NextOthers]_vars

\* C30: the score of a task depends on the other tasks of the collection
\* only through the completed flag of the tasks its deps name: after
\* another field of another task is changed, or a task that is not among
\* its deps is added, removed or moved, scoreTask returns the same score
C30_ScoreIgnoresOtherTasks ==
  pc = "twinScored" => rescore = score

\* a task whose dependencies are all completed was scored above 0 before
\* and after a task it does not depend on, and that is not completed, was
\* added to the collection
C30_Witness ==
  /\ pc = "twinScored"
  /\ fraised = "add"
  /\ depIdsOf(argTask) # {}
  /\ Len(argTasks) = Len(fprev) + 1
  /\ \E i \in DOMAIN argTasks : ~argTasks[i].completed
  /\ Gt(score, 0)
  /\ rescore = score

\* ------------------------------------------------------------------------
\* Store (src/unnamed/part_000): each action as the state it sets
\* ------------------------------------------------------------------------

\* recalculateAllPriorities(tasks, prefs): sortTasksByPriority at the wall
\* clock's time
recalculateAllPriorities(tasks, prefs) == sortTasksByPriority(tasks, clock, prefs)

\* generateId(): the n-th id handed out; an id holds the time and a random
\* suffix and is never handed out twice
generateId(n) == n

\* { ...task, ...updates }: the fields of updates replace those of task
spread(task, updates) ==
  [f \in DOMAIN task |-> IF f \in DOMAIN updates THEN updates[f] ELSE task[f]]

\* wd / total, wf / total, wm / total
normalizedWeights(weights) ==
  LET total == Add(Add(weights.wd, weights.wf), weights.wm)
  IN  [wd |-> Div(weights.wd, total), wf |-> Div(weights.wf, total),
       wm |-> Div(weights.wm, total)]

\* state.tasks.filter(task => task.id !== id)
RECURSIVE withoutId(_, _)
withoutId(ts, id) ==
  IF ts = <<>> THEN <<>>
  ELSE IF Head(ts).id = id THEN withoutId(Tail(ts), id)
  ELSE <<Head(ts)>> \o withoutId(Tail(ts), id)

\* addTask(taskData), the new task taking the next id
addTask(taskData) ==
  LET newTask == [taskData EXCEPT !.id = generateId(generated + 1),
                                  !.completed = FALSE,
                                  !.priorityScore = Some(0)]
      updatedTasks == Append(state.tasks, newTask)
  IN  [state EXCEPT !.tasks = recalculateAllPriorities(updatedTasks, state.preferences),
                    !.lastCalculation = Some(clock),
                    !.error = Absent]

\* updateTask(id, updates)
updateTask(id, updates) ==
  LET updatedTasks == [i \in DOMAIN state.tasks |->
                         IF state.tasks[i].id = id
                         THEN spread(state.tasks[i], updates)
                         ELSE state.tasks[i]]
  IN  [state EXCEPT !.tasks = recalculateAllPriorities(updatedTasks, state.preferences),
                    !.lastCalculation = Some(clock),
                    !.error = Absent]

\* deleteTask taking the deleted id out of the other tasks' deps as well
deleteTask_scrubbingDeps(id) ==
  [state EXCEPT !.tasks = [i \in DOMAIN withoutId(state.tasks, id) |->
                             LET t == withoutId(state.tasks, id)[i]
                             IN  IF Has(t.deps) THEN [t EXCEPT !.deps = Some(Val(t.deps) \ {id})]
                                 ELSE t],
                !.lastCalculation = Some(clock),
                !.error = Absent]

\* deleteTask(id)
deleteTask(id) ==
  [state EXCEPT !.tasks = withoutId(state.tasks, id),
                !.lastCalculation = Some(clock),
                !.error = Absent]

\* completeTask(id)
completeTask(id) == updateTask(id, [completed |-> TRUE])

\* recalculatePriorities()
recalculatePriorities ==
  [state EXCEPT !.tasks = recalculateAllPriorities(state.tasks, state.preferences),
                !.lastCalculation = Some(clock),
                !.error = Absent]

\* updateWeights(weights)
updateWeights(weights) ==
  LET updatedPrefs == [state.preferences EXCEPT !.weights = normalizedWeights(weights)]
  IN  [state EXCEPT !.preferences = updatedPrefs,
                    !.tasks = recalculateAllPriorities(state.tasks, updatedPrefs),
                    !.lastCalculation = Some(clock)]

\* completeOnboarding(weights, anchors)
completeOnboarding(weights) ==
  [state EXCEPT !.preferences = [state.preferences EXCEPT
                                   !.weights = normalizedWeights(weights),
                                   !.onboardingComplete = TRUE],
                !.onboardingComplete = TRUE]

\* setSuggestions(suggestions)
setSuggestions(suggestions) == [state EXCEPT !.suggestions = suggestions]

\* clearSuggestions()
clearSuggestions == [state EXCEPT !.suggestions = <<>>]

\* state.suggestions.find(s => s.id === suggestionId): the index of the
\* first suggestion with that id, 0 when there is none
findSuggestion(suggestionId) ==
  IF \E i \in DOMAIN state.suggestions : state.suggestions[i].id = suggestionId
  THEN CHOOSE i \in DOMAIN state.suggestions :
         /\ state.suggestions[i].id = suggestionId
         /\ \A j \in DOMAIN state.suggestions :
              state.suggestions[j].id = suggestionId => i <= j
  ELSE 0

\* applySuggestion(suggestionId): updateTask(originalTask.id, modifiedTask)
\* and clearSuggestions() when the suggestion is found, nothing otherwise
applySuggestion(suggestionId) ==
  LET i == findSuggestion(suggestionId)
  IN  IF i = 0 THEN state
      ELSE [updateTask(state.suggestions[i].originalTask.id,
                       state.suggestions[i].modifiedTask)
              EXCEPT !.suggestions = <<>>]

\* the message importData leaves in error
ImportError == "Erro ao importar dados. Verifique o formato do arquivo."

\* importData(data): data.parses tells whether JSON.parse returns; a text
\* that does not parse, or lacks version, tasks or preferences, is rejected
importData(data) ==
  IF ~data.parses \/ ~Has(data.version) \/ ~Has(data.tasks) \/ ~Has(data.preferences)
  THEN [state EXCEPT !.error = Some(ImportError)]
  ELSE [state EXCEPT
          !.tasks = recalculateAllPriorities(Val(data.tasks), Val(data.preferences)),
          !.preferences = Val(data.preferences),
          !.lastCalculation = Some(clock),
          !.error = Absent,
          !.onboardingComplete = Val(data.preferences).onboardingComplete]

\* clearAllData()
clearAllData == InitialState

\* ------------------------------------------------------------------------
\* Store: the calls of its actions
\* ------------------------------------------------------------------------

\* The actions are called in any order, all at the time Now0 of the wall
\* clock. updateAnchor and removeAnchor (anchors), setLoading and setError
\* (flags of the interface) and exportData (a read) touch neither the tasks
\* nor the weights and are left out.

\* ids handed out by generateId
MaxGenerated == 2

\* the tasks handed to addTask: a plain task, a task that depends on the
\* first task added, and a task whose deadline does not parse
StoreBodies ==
  { mkTask(0, "outro", Absent, Absent, Absent, HighBenefits, Absent, Absent,
           Absent, Absent, Absent, FALSE),
    mkTask(0, "outro", Absent, Absent, Absent, HighBenefits, Absent, Absent,
           Some({generateId(1)}), Absent, Absent, FALSE),
    mkTask(0, "outro", Absent, Absent, Absent, HighBenefits, Absent,
           Some([due |-> Some(BadDate), Rd |-> 3]), Absent, Absent, Absent, FALSE) }

\* the ids store actions are called with: those handed out so far and the
\* next one, which no task has
StoreIds == 1..(generated + 1)

\* the updates handed to updateTask
StoreUpdates == { [deps |-> Absent], [id |-> 0 - 7] }

\* the weights handed to updateWeights and completeOnboarding, as the
\* sliders give them: all equal, and all at zero
StoreWeights ==
  { [wd |-> ONE, wf |-> ONE, wm |-> ONE], [wd |-> 0, wf |-> 0, wm |-> 0] }

\* a suggestion to lower the benefit of the plain task with this id
suggestionFor(id) ==
  LET task == mkTask(id, "outro", Absent, Absent, Absent, HighBenefits, Absent, Absent, Absent, Absent, Absent, FALSE)
  IN  [ id |-> id, originalTask |-> task,
        modifiedTask |-> [task EXCEPT !.benefits = LowBenefits] ]

\* a task of an exported file, with the score it was exported with
exportedTask(id, benefits, priorityScore) ==
  [mkTask(id, "outro", Absent, Absent, Absent, benefits, Absent, Absent, Absent, Absent, Absent, FALSE) EXCEPT !.priorityScore = Some(priorityScore)]

\* the texts handed to importData: one that does not parse, one without
\* tasks, an export of one task made under the default weights, and the
\* same with weights that were edited in the file
StoreImports ==
  LET tasks == << exportedTask(0 - 1, HighBenefits, Num(20)) >>
  IN  { [parses |-> FALSE, version |-> Absent, tasks |-> Absent, preferences |-> Absent],
        [parses |-> TRUE, version |-> Some("1.0.0"), tasks |-> Absent,
         preferences |-> Some(createDefaultPreferences)],
        [parses |-> TRUE, version |-> Some("1.0.0"), tasks |-> Some(tasks),
         preferences |-> Some([createDefaultPreferences EXCEPT !.onboardingComplete = TRUE])],
        [parses |-> TRUE, version |-> Some("1.0.0"), tasks |-> Some(tasks),
         preferences |-> Some([weights |-> [wd |-> ONE, wf |-> ONE, wm |-> ONE],
                               onboardingComplete |-> TRUE])] }

InitStore ==
  /\ pc = "store"
  /\ argTask = NoTask
  /\ argTasks = <<>>
  /\ argNow = Now0
  /\ argPrefs = defaultPrefs
  /\ score = 0
  /\ rescore = 0
  /\ sorted1 = <<>>
  /\ sorted2 = <<>>
  /\ clock = Now0
  /\ fargs = NoArgs
  /\ fret = 0
  /\ fprev = 0
  /\ fraised = "none"
  /\ state = InitialState
  /\ generated = 0

\* what a call of a store action leaves alone
storeFrame ==
  UNCHANGED <<pc, argTask, argTasks, argNow, argPrefs, score, rescore, sorted1,
              sorted2, clock, fargs, fret, fprev, fraised>>

AddTask ==
  /\ generated < MaxGenerated
  /\ \E taskData \in StoreBodies : state' = addTask(taskData)
  /\ generated' = generated + 1
  /\ storeFrame

UpdateTask ==
  /\ \E id \in StoreIds, updates \in StoreUpdates : state' = updateTask(id, updates)
  /\ UNCHANGED generated
  /\ storeFrame

DeleteTask ==
  /\ \E id \in StoreIds : state' = deleteTask(id)
  /\ UNCHANGED generated
  /\ storeFrame

CompleteTask ==
  /\ \E id \in StoreIds : state' = completeTask(id)
  /\ UNCHANGED generated
  /\ storeFrame

RecalculatePriorities ==
  /\ state' = recalculatePriorities
  /\ UNCHANGED generated
  /\ storeFrame

UpdateWeights ==
  /\ \E weights \in StoreWeights : state' = updateWeights(weights)
  /\ UNCHANGED generated
  /\ storeFrame

CompleteOnboarding ==
  /\ \E weights \in StoreWeights : state' = completeOnboarding(weights)
  /\ UNCHANGED generated
  /\ storeFrame

SetSuggestions ==
  /\ \E id \in StoreIds : state' = setSuggestions(<<suggestionFor(id)>>)
  /\ UNCHANGED generated
  /\ storeFrame

ClearSuggestions ==
  /\ state' = clearSuggestions
  /\ UNCHANGED generated
  /\ storeFrame

ApplySuggestion ==
  /\ \E suggestionId \in StoreIds : state' = applySuggestion(suggestionId)
  /\ UNCHANGED generated
  /\ storeFrame

ImportData ==
  /\ \E data \in StoreImports : state' = importData(data)
  /\ UNCHANGED generated
  /\ storeFrame

ClearAllData ==
  /\ state' = clearAllData
  /\ UNCHANGED generated
  /\ storeFrame

NextStore ==
  \/ AddTask
  \/ UpdateTask
  \/ DeleteTask
  \/ CompleteTask
  \/ RecalculatePriorities
  \/ UpdateWeights
  \/ CompleteOnboarding
  \/ SetSuggestions
  \/ ClearSuggestions
  \/ ApplySuggestion
  \/ ImportData
  \/ ClearAllData

SpecStore == InitStore /\ [][NextStore]_vars

\* the store's actions on its tasks
NextTasks ==
  \/ AddTask
  \/ UpdateTask
  \/ DeleteTask
  \/ CompleteTask
  \/ RecalculatePriorities

SpecTasks == InitStore /\ [][NextTasks]_vars

\* ------------------------------------------------------------------------
\* Properties of the store (SpecStore, SpecTasks)
\* ------------------------------------------------------------------------

\* the ids of the stored tasks
storedIds(st) == {st.tasks[i].id : i \in DOMAIN st.tasks}

\* C29: deleteTask removes the task with the id and nothing else, leaving
\* every other task as it was, its deps included; and every completeTask
\* or recalculatePriorities that follows gives priorityScore 0 to each task
\* that is not completed and has a dependency that is no longer stored
C29_DependentsOfDeletedScoreZero ==
  [][ /\ \A id \in StoreIds :
           state' = deleteTask(id) =>
             /\ id \notin storedIds(state')
             /\ \A i \in DOMAIN state.tasks :
                  state.tasks[i].id # id =>
                    \E j \in DOMAIN state'.tasks : state'.tasks[j] = state.tasks[i]
             /\ \A j \in DOMAIN state'.tasks :
                  \E i \in DOMAIN state.tasks : state'.tasks[j] = state.tasks[i]
      /\ (state' = recalculatePriorities \/ \E id \in StoreIds : state' = completeTask(id)) =>
           \A j \in DOMAIN state'.tasks :
             ( /\ ~state'.tasks[j].completed
               /\ depIdsOf(state'.tasks[j]) \ storedIds(state) # {} )
               => state'.tasks[j].priorityScore = Some(0) ]_vars

\* a task that is not completed still holds the score above 0 it had when
\* the task it depends on, completed then, was deleted
C29_Witness ==
  \E i \in DOMAIN state.tasks :
    /\ ~state.tasks[i].completed
    /\ \E d \in depIdsOf(state.tasks[i]) : d \in 1..generated /\ d \notin storedIds(state)
    /\ Gt(Val(state.tasks[i].priorityScore), 0)

\* every stored task holds the score scoreTask gives it now
ScoresFresh(st) ==
  \A i \in DOMAIN st.tasks :
    st.tasks[i].priorityScore = Some(scoreTask(st.tasks[i], clock, st.preferences, st.tasks))

\* a step of one of the actions that change the task set or the weights
ChangesTasksOrWeights ==
  \/ \E taskData \in StoreBodies : state' = addTask(taskData)
  \/ \E id \in StoreIds, updates \in StoreUpdates : state' = updateTask(id, updates)
  \/ \E id \in StoreIds : state' = completeTask(id)
  \/ \E id \in StoreIds : state' = deleteTask(id)
  \/ \E weights \in StoreWeights : state' = updateWeights(weights)
  \/ \E weights \in StoreWeights : state' = completeOnboarding(weights)
  \/ \E data \in StoreImports : state' = importData(data)

\* C22: after addTask, updateTask, completeTask, deleteTask, updateWeights,
\* completeOnboarding and importData every stored task's priorityScore is
\* the score scoreTask gives it against the resulting task set and weights
C22_NoStaleScore ==
  [][ChangesTasksOrWeights => ScoresFresh(state')]_vars

\* a weight is a number in [0, 1]
InUnitInterval(w) == Ge(w, 0) /\ Le(w, ONE)

\* C26: in every state of the store preferences.weights are normalized:
\* wd + wf + wm = 1 and each weight is a number in [0, 1]
C26_WeightsNormalized ==
  /\ NormalizedSum(state.preferences.weights)
  /\ InUnitInterval(state.preferences.weights.wd)
  /\ InUnitInterval(state.preferences.weights.wf)
  /\ InUnitInterval(state.preferences.weights.wm)

\* how often an id is stored
storedCount(st, id) == Cardinality({i \in DOMAIN st.tasks : st.tasks[i].id = id})

\* C27: updateTask, completeTask, applySuggestion and recalculatePriorities
\* keep the id of every stored task: the stored ids are the same before and
\* after, each as often as before
C27_IdsImmutable ==
  [][ ( \/ \E id \in StoreIds, updates \in StoreUpdates : state' = updateTask(id, updates)
        \/ \E id \in StoreIds : state' = completeTask(id)
        \/ \E suggestionId \in StoreIds : state' = applySuggestion(suggestionId)
        \/ state' = recalculatePriorities )
      => /\ storedIds(state') = storedIds(state)
         /\ \A id \in storedIds(state) : storedCount(state', id) = storedCount(state, id) ]_vars

\* C28: in every state of the store the task list is ordered non-increasing
\* by priorityScore
C28_StoredListOrdered ==
  \A i \in 1..(Len(state.tasks) - 1) :
    Ge(Val(state.tasks[i].priorityScore), Val(state.tasks[i + 1].priorityScore))

====
